---- MODULE Spec2Model ----
(***************************************************************************)
(* Model of the RAIN RFID UHF reader driver (rfid_reader.py, serial_io.py). *)
(*                                                                         *)
(* Byte strings are sequences of 0..255.  A Python value that may be None  *)
(* is an option: PyNone is None, Some(v) is the value v.                   *)
(***************************************************************************)
EXTENDS Integers, Sequences, FiniteSets, TLC

\* ------------------------------------------------------------------ bounds
\* Start-flagged deposits the producer makes in one run on a line that may show
\* faults, and in one run on a line that shows none.
MaxDeposits == 1
QuietDeposits == 3
\* Operation calls that meet transport faults (send error, empty receive, stale
\* or failing frame) in one run; within such a call the faults are unbounded.
MaxFaults == 1
\* Frames in one received buffer handed to wait_for_response_short on its own.
MaxFrames == 3
\* The longest region string set_op_region is called with.
MaxRegionLen == 3
\* The most bytes a declared length of build_cmd exceeds the longest payload by.
MaxPad == 3

\* ----------------------------------------------------------------- options
PyNone == <<>>
Some(v) == <<v>>
IsNone(o) == Len(o) = 0
Val(o) == o[1]

\* ------------------------------------------------------------------- bytes
Min(a, b) == IF a < b THEN a ELSE b

\* Python's s[a:b] on a byte string (0-based, end exclusive, clipped).
Slice(s, a, b) == SubSeq(s, a + 1, Min(b, Len(s)))

\* Python's s[a:].
SliceFrom(s, a) == SubSeq(s, a + 1, Len(s))

RECURSIVE from_bytes_little(_)
\* int.from_bytes(s, 'little').
from_bytes_little(s) ==
    IF Len(s) = 0 THEN 0
    ELSE s[1] + 256 * from_bytes_little(SubSeq(s, 2, Len(s)))

RECURSIVE from_bytes_big(_)
\* int.from_bytes(s, 'big'); int.from_bytes(b'', 'big') is 0.
from_bytes_big(s) ==
    IF Len(s) = 0 THEN 0
    ELSE 256 * from_bytes_big(SubSeq(s, 1, Len(s) - 1)) + s[Len(s)]

\* Reading a 2-byte string as unsigned where the source reads it as signed.
from_bytes_big_unsigned16(s) == from_bytes_big(s)

\* int.from_bytes(s, byteorder='big', signed=True) on a 2-byte string.
from_bytes_big_signed16(s) ==
    LET u == from_bytes_big(s) IN IF u >= 32768 THEN u - 65536 ELSE u

\* n.to_bytes(2, 'big') for 0 <= n < 65536.
to_bytes2(n) == << (n \div 256) % 256, n % 256 >>

\* n.to_bytes(4, 'big') for 0 <= n < 2^31.
to_bytes4(n) ==
    << (n \div 16777216) % 256, (n \div 65536) % 256, (n \div 256) % 256, n % 256 >>

\* bit_status(x, n): x & 1 << n != 0.
bit_status(x, n) == (x \div (2 ^ n)) % 2 = 1

\* --------------------------------------------------------- UHFBytes (frames)
FRAMING_BYTES == <<246, 40>>
FRAMING_BYTES_LEN == 2
STATUS_SUCCESS == <<0, 0>>
STATUS_OP_REGION_INVALID == <<0, 5>>
STATUS_INVALID_POWER_LEVEL == <<0, 6>>
STATUS_INTERNAL_ERROR == <<0, 7>>

\* The response opcode (C/R bit set) the driver expects, per operation.
UHFBytes ==
    [ get_version            |-> <<128, 4>>,
      get_temp               |-> <<128, 19>>,
      get_op_region          |-> <<128, 3>>,
      set_op_region          |-> <<128, 2>>,
      get_operational_params |-> <<128, 11>>,
      set_operational_param  |-> <<128, 10>>,
      get_event_mask         |-> <<128, 21>>,
      set_event_mask         |-> <<128, 20>>,
      set_tx_power           |-> <<128, 5>>,
      get_tx_power           |-> <<128, 6>>,
      set_ant_enables        |-> <<128, 14>>,
      get_ant_enables        |-> <<128, 15>>,
      set_op_state           |-> <<128, 12>>,
      get_op_state           |-> <<128, 13>>,
      get_tag_report         |-> <<128, 9>>,
      keep_alive             |-> <<128, 1>> ]

\* UHFOperatingState: the payload of set_op_state (bytes.fromhex of the code).
IDLE == <<0, 0>>
TAG_READ == <<0, 4>>

\* Class constant REC_TIMEOUT (seconds); keep_alive passes it to
\* wait_for_response_short in the place of the expected opcode.
REC_TIMEOUT == 1

\* The second argument of wait_for_response_short: a byte string, or (from
\* keep_alive) the integer REC_TIMEOUT.
BytesArg(b) == [bytes |-> b]
IntArg(n) == [int |-> n]

\* Python's ==  between a byte string and that argument: bytes never equal an int.
PyEq(b, arg) == IF "bytes" \in DOMAIN arg THEN b = arg.bytes ELSE FALSE

\* -------------------------------------------------------------- build_cmd
\* Word types of build_cmd.
WordTypes == {"str", "int", "int32", "uint32_t", "byt"}

\* bytes(s, "utf-8") of a string given as the sequence of its code points
\* (below 65536, no surrogates).
RECURSIVE utf8(_)
utf8(str) ==
    IF Len(str) = 0 THEN <<>>
    ELSE LET c == str[1]
             b == IF c < 128 THEN <<c>>
                  ELSE IF c < 2048 THEN <<192 + (c \div 64), 128 + (c % 64)>>
                  ELSE <<224 + (c \div 4096), 128 + ((c \div 64) % 64), 128 + (c % 64)>>
         IN  b \o utf8(SubSeq(str, 2, Len(str)))

\* The payload build_cmd appends for word1 (not None), by word_type.  A 'str'
\* word is the string's code points; bytes.fromhex(word1) is given as the
\* bytes it produces.
cmd_payload(word1, word2, word3, word4, word_type) ==
    CASE word_type = "str"      -> utf8(Val(word1)) \o <<0>>
      [] word_type = "int"      ->
            IF IsNone(word2) /\ IsNone(word3) /\ IsNone(word4)
            THEN to_bytes2(Val(word1))
            ELSE to_bytes2(Val(word1)) \o to_bytes2(Val(word2))
                 \o to_bytes2(Val(word3)) \o to_bytes2(Val(word4))
      [] word_type = "int32"    -> to_bytes4(Val(word1))
      [] word_type = "uint32_t" -> Val(word1) \o to_bytes4(Val(word2))
      [] word_type = "byt"      -> Val(word1)

\* range(int(length, 16) - len(msg_bytes)) zero bytes.
zero_pad(msg_bytes, length) ==
    [k \in 1..(IF length > Len(msg_bytes) THEN length - Len(msg_bytes) ELSE 0) |-> 0]

\* build_cmd(length, cr_opcode, word1, word2, word3, word4, word_type): length
\* and cr_opcode are the numbers their 4-digit hex strings denote.
build_cmd(length, cr_opcode, word1, word2, word3, word4, word_type) ==
    LET header == FRAMING_BYTES \o to_bytes2(length) \o to_bytes2(cr_opcode) IN
    IF ~IsNone(word1)
    THEN LET msg_bytes == header \o cmd_payload(word1, word2, word3, word4, word_type)
         IN  msg_bytes \o zero_pad(msg_bytes, length)
    ELSE header

\* ------------------------------------------------ wait_for_response_short
\* Index of the first occurrence of FRAMING_BYTES in s at or after k, 0 if none.
RECURSIVE find_marker(_, _)
find_marker(s, k) ==
    IF k + 1 > Len(s) THEN 0
    ELSE IF s[k] = FRAMING_BYTES[1] /\ s[k + 1] = FRAMING_BYTES[2] THEN k
    ELSE find_marker(s, k + 1)

\* bytes.split(FRAMING_BYTES): the fragments between the markers, left to right.
RECURSIVE split(_)
split(s) ==
    LET at == find_marker(s, 1) IN
    IF at = 0 THEN <<s>>
    ELSE <<SubSeq(s, 1, at - 1)>> \o split(SubSeq(s, at + 2, Len(s)))

\* A wait_for_response_short that tries the second fragment first.
select_fragment_second_first(res, set_response) ==
    LET res_trimmed == split(res) IN
    IF Len(res_trimmed) > 2
    THEN LET second == FRAMING_BYTES \o res_trimmed[2] IN
         IF PyEq(Slice(second, 4, 6), set_response)
         THEN second
         ELSE FRAMING_BYTES \o res_trimmed[3]
    ELSE res

\* Fragment selection of wait_for_response_short.
select_fragment(res, set_response) ==
    LET res_trimmed == split(res) IN
    IF Len(res_trimmed) > 2
    THEN LET third == FRAMING_BYTES \o res_trimmed[3] IN
         IF PyEq(Slice(third, 4, 6), set_response)
         THEN third
         ELSE FRAMING_BYTES \o res_trimmed[2]
    ELSE res

\* Cut to the expected length: res[:int.from_bytes(res[2:4]) + FRAMING_BYTES_LEN].
cut_to_length(res) ==
    Slice(res, 0, from_bytes_big(Slice(res, 2, 4)) + FRAMING_BYTES_LEN)

\* wait_for_response_short on what serial_receive returned, rx = [error, data].
\* data None makes res.split raise AttributeError.
wait_for_response_short(rx, set_response) ==
    IF IsNone(rx.data)
    THEN [raised |-> TRUE, error |-> rx.error, res |-> PyNone]
    ELSE [raised |-> FALSE, error |-> rx.error,
          res |-> Some(cut_to_length(select_fragment(Val(rx.data), set_response)))]

\* ------------------------------------------------------- command catalog
SetOps == {"set_op_region", "set_tx_power", "set_ant_enables", "set_op_state",
           "set_operational_param", "set_event_mask"}
GetOps == {"get_version", "get_temp", "get_op_region", "get_tx_power",
           "get_ant_enables", "get_op_state", "get_tag_report",
           "get_operational_params", "get_event_mask"}
Ops == SetOps \cup GetOps \cup {"keep_alive"}

\* The set operations that fall back to wait_for_response_long on an empty
\* response (set_op_region does not).
LongWaitOps == SetOps \ {"set_op_region"}

\* A set_ant_enables that formats the flags in the order of its arguments.
pack_ant_enables_reversed(a1, a2, a3, a4) == 8 * a1 + 4 * a2 + 2 * a3 + a4

\* int('0000{}{}{}{}'.format(ant4, ant3, ant2, ant1), 2), the flags being 0 or 1.
pack_ant_enables(a1, a2, a3, a4) == 8 * a4 + 4 * a3 + 2 * a2 + a1

\* int('00{}{}{}{}{}{}'.format(f6, f5, f4, f3, f2, f1), 2), the flags being 0 or 1.
create_event_mask(f1, f2, f3, f4, f5, f6) ==
    32 * f6 + 16 * f5 + 8 * f4 + 4 * f3 + 2 * f2 + f1

\* The request frame each operation builds; arg is the tuple of its arguments.
request(op, arg) ==
    CASE op = "get_version"   -> build_cmd(4, 4, PyNone, PyNone, PyNone, PyNone, "str")
      [] op = "get_temp"      -> build_cmd(4, 19, PyNone, PyNone, PyNone, PyNone, "str")
      [] op = "get_operational_params" ->
            build_cmd(6, 11, Some(arg[1]), PyNone, PyNone, PyNone, "byt")
      [] op = "set_operational_param" ->
            build_cmd(10, 10, Some(arg[1]), Some(arg[2]), PyNone, PyNone, "uint32_t")
      [] op = "get_event_mask" -> build_cmd(4, 21, PyNone, PyNone, PyNone, PyNone, "str")
      [] op = "set_event_mask" ->
            build_cmd(8, 20,
                      Some(create_event_mask(arg[1], arg[2], arg[3], arg[4], arg[5], arg[6])),
                      PyNone, PyNone, PyNone, "int32")
      [] op = "get_op_region" -> build_cmd(4, 3, PyNone, PyNone, PyNone, PyNone, "str")
      [] op = "set_op_region" ->
            build_cmd(4 + Len(arg[1]) + 1, 2, Some(arg[1]), PyNone, PyNone, PyNone, "str")
      [] op = "get_tx_power"  -> build_cmd(4, 6, PyNone, PyNone, PyNone, PyNone, "str")
      [] op = "set_tx_power"  ->
            build_cmd(12, 5, Some(arg[1] * 100), Some(arg[2] * 100),
                      Some(arg[3] * 100), Some(arg[4] * 100), "int")
      [] op = "get_tag_report" ->
            build_cmd(6, 9, Some(<<0, 0>>), PyNone, PyNone, PyNone, "byt")
      [] op = "get_ant_enables" -> build_cmd(4, 15, PyNone, PyNone, PyNone, PyNone, "str")
      [] op = "set_ant_enables" ->
            build_cmd(6, 14, Some(pack_ant_enables(arg[1], arg[2], arg[3], arg[4])),
                      PyNone, PyNone, PyNone, "int")
      [] op = "set_op_state"  ->
            build_cmd(6, 12, Some(arg[1]), PyNone, PyNone, PyNone, "byt")
      [] op = "get_op_state"  -> build_cmd(4, 13, PyNone, PyNone, PyNone, PyNone, "str")
      [] op = "keep_alive"    -> build_cmd(4, 1, PyNone, PyNone, PyNone, PyNone, "str")

\* The keep-alive frame wait_for_response_long sends.
long_probe == build_cmd(4, 1, PyNone, PyNone, PyNone, PyNone, "str")

\* What each operation hands wait_for_response_short as set_response.
short_arg(op) ==
    IF op = "keep_alive" THEN IntArg(REC_TIMEOUT) ELSE BytesArg(UHFBytes[op])

\* -------------------------------------------------------- response checks
status_ok(res) == Slice(res, 6, 8) = STATUS_SUCCESS
opcode_is(res, op) == Slice(res, 4, 6) = UHFBytes[op]

\* The condition under which set_tx_power, set_ant_enables, set_op_state and
\* set_operational_param report an error:
\*     not res[6:8] == STATUS_SUCCESS and res[4:6] == <opcode>
\* (not binds tighter than and).
set_reports_error(op, res) == ~status_ok(res) /\ opcode_is(res, op)

\* set_event_mask compares res[6:10] with the 2-byte STATUS_SUCCESS.
set_event_mask_reports_error(res) ==
    ~(Slice(res, 6, 10) = STATUS_SUCCESS) /\ opcode_is(res, "set_event_mask")

\* set_op_region: success, invalid region, or unable to set.
set_op_region_error(res) ==
    IF status_ok(res) /\ opcode_is(res, "set_op_region") THEN PyNone
    ELSE IF ~status_ok(res) THEN Some("Invalid operating region")
    ELSE Some("Unable to set operating region")

\* The error a set operation returns, given the (error, res) it ended with.
set_error(op, error, res) ==
    IF ~IsNone(error) THEN error
    ELSE IF op = "set_op_region" THEN set_op_region_error(Val(res))
    ELSE IF op = "set_event_mask"
         THEN (IF set_event_mask_reports_error(Val(res))
               THEN Some("Unable to set event mask!") ELSE PyNone)
    ELSE IF set_reports_error(op, Val(res)) THEN Some("Unable to set") ELSE PyNone

\* A response check that looks at the status alone.
get_accepts_status_only(op, res) == status_ok(res)

\* The condition under which a get operation and keep_alive parse the response.
get_accepts(op, res) == status_ok(res) /\ opcode_is(res, op)

\* ------------------------------------------------------ response parsing
\* A code_to_param that formats the low byte of the code alone.
code_to_param_low_byte(code) ==
    CASE code % 256 = 1 -> "Tag Time Out"
      [] code % 256 = 2 -> "Tag_Power_Change_Threshold"
      [] code % 256 = 3 -> "Tag_Report_Timeout"
      [] code % 256 = 4 -> "Transient_Detect_Time"
      [] code % 256 = 5 -> "Transient_Count"
      [] code % 256 = 6 -> "Transient_Interval"
      [] code % 256 = 7 -> "Gen2_Op_Timeout"
      [] OTHER          -> "Response_Not_Defined"

\* code_to_param on an integer code ('{:04x}'.format(code) matched against
\* '0001'..'0007').
code_to_param(code) ==
    CASE code = 1 -> "Tag Time Out"
      [] code = 2 -> "Tag_Power_Change_Threshold"
      [] code = 3 -> "Tag_Report_Timeout"
      [] code = 4 -> "Transient_Detect_Time"
      [] code = 5 -> "Transient_Count"
      [] code = 6 -> "Transient_Interval"
      [] code = 7 -> "Gen2_Op_Timeout"
      [] OTHER    -> "Response_Not_Defined"

\* The match of get_op_state on res[10:12].
op_state_name(rep) ==
    CASE rep = 0 -> "Idle"
      [] rep = 1 -> "CW Test"
      [] rep = 2 -> "PRBS Test"
      [] rep = 3 -> "ETSI Burst Test"
      [] rep = 4 -> "Tag Read"
      [] rep = 5 -> "Over Temp"
      [] rep = 6 -> "Reader_Error"
      [] rep = 7 -> "Hard_Reset"
      [] rep = 8 -> "SW_Mismatch"
      [] rep = 9 -> "Bootloader"
      [] OTHER   -> "Not defined"

\* The match of get_tag_report on res[8:10].
reply_reason_name(rep) ==
    CASE rep = 1 -> "New Tag Seen"
      [] rep = 2 -> "Tag Removed"
      [] rep = 3 -> "Power Changed"
      [] rep = 4 -> "GEN2 Op Completed"
      [] rep = 5 -> "Tag Report Timeout"
      [] rep = 6 -> "Report Requested"
      [] OTHER   -> "Not defined"

\* The value each get operation (and keep_alive) parses from an accepted
\* response.  str.decode('utf-8') of ASCII bytes is kept as those bytes; a
\* value divided by 100 is kept as its numerator in hundredths.
parse_value(op, res) ==
    CASE op = "get_version" ->
            [FirmwareRev |-> Slice(res, 8, 13), SDKRev |-> Slice(res, 14, 19),
             SoftwareRev |-> Slice(res, 20, 25), HardwareRev |-> Slice(res, 26, 29)]
      [] op = "get_temp" -> [hundredths |-> from_bytes_big(SliceFrom(res, 8))]
      [] op = "get_operational_params" ->
            [param |-> code_to_param(from_bytes_big(Slice(res, 8, 10))),
             value |-> from_bytes_big(SliceFrom(res, 10))]
      [] op = "get_event_mask" ->
            LET mask_32bits == from_bytes_big(SliceFrom(res, 8)) IN
            [tag_seen |-> bit_status(mask_32bits, 0),
             tag_removed |-> bit_status(mask_32bits, 1),
             tag_power_change |-> bit_status(mask_32bits, 2),
             tag_report_timeout |-> bit_status(mask_32bits, 3),
             gen2_op_completed |-> bit_status(mask_32bits, 4),
             gen2_op_timeout |-> bit_status(mask_32bits, 5)]
      [] op = "get_op_region" -> Slice(res, 8, 11)
      [] op = "get_tx_power" ->
            [ant1power |-> from_bytes_big(Slice(res, 8, 10)),
             ant2power |-> from_bytes_big(Slice(res, 10, 12)),
             ant3power |-> from_bytes_big(Slice(res, 12, 14)),
             ant4power |-> from_bytes_big(Slice(res, 14, 16))]
      [] op = "get_tag_report" ->
            [replyReason |-> reply_reason_name(from_bytes_big(Slice(res, 8, 10))),
             powerRSSIRaw |-> from_bytes_big_signed16(Slice(res, 10, 12)),
             powerdBm |-> from_bytes_big_signed16(Slice(res, 12, 14)),
             timestamp |-> from_bytes_big(Slice(res, 14, 18)),
             antenna |-> from_bytes_big(Slice(res, 18, 20)),
             epcLength |-> from_bytes_big(SliceFrom(res, 20))]
      [] op = "get_ant_enables" ->
            LET bit_vector == from_bytes_big(SliceFrom(res, 8)) IN
            [ant1enables |-> bit_status(bit_vector, 0),
             ant2enables |-> bit_status(bit_vector, 1),
             ant3enables |-> bit_status(bit_vector, 2),
             ant4enables |-> bit_status(bit_vector, 3)]
      [] op = "get_op_state" -> op_state_name(from_bytes_big(Slice(res, 10, 12)))
      [] op = "keep_alive" -> TRUE

\* The (error, value) pair a get operation or keep_alive returns, given the
\* (error, res) it ended with.
get_result(op, error, res) ==
    IF ~IsNone(error) THEN [error |-> error, value |-> PyNone]
    ELSE IF get_accepts(op, Val(res))
         THEN [error |-> PyNone, value |-> Some(parse_value(op, Val(res)))]
         ELSE [error |-> Some("Unable to get"), value |-> PyNone]

\* What an operation returns: a set returns its error alone.
op_result(op, error, res) ==
    IF op \in SetOps
    THEN [error |-> set_error(op, error, res), value |-> PyNone]
    ELSE get_result(op, error, res)

\* ---------------------------------------------------------------- device
\* A response frame as the reader module emits it.
RespFrame(opcode, status, payload) ==
    FRAMING_BYTES \o to_bytes2(6 + Len(payload)) \o opcode \o status \o payload

\* Payloads of successful responses (the examples given in the source).
GoodPayload(op) ==
    CASE op = "get_version" ->
            <<49, 46, 50, 46, 48, 0, 49, 46, 50, 46, 48, 0,
              50, 46, 48, 46, 48, 0, 49, 46, 48, 0>>
      [] op = "get_temp" -> <<16, 100>>
      [] op = "get_operational_params" -> <<0, 1, 0, 0, 234, 96>>
      [] op = "get_event_mask" -> <<0, 0, 0, 63>>
      [] op = "get_op_region" -> <<70, 67, 67, 0>>
      [] op = "get_tx_power" -> <<11, 184, 11, 184, 11, 184, 11, 184>>
      [] op = "get_tag_report" -> <<0, 6, 6, 7, 231, 46, 98, 182, 53, 206, 0, 2, 0, 20>>
      [] op = "get_ant_enables" -> <<0, 5>>
      [] op = "get_op_state" -> <<0, 0, 0, 0>>
      [] OTHER -> <<>>

GoodFrame(op) == RespFrame(UHFBytes[op], STATUS_SUCCESS, GoodPayload(op))
FailFrame(op) == RespFrame(UHFBytes[op], STATUS_INTERNAL_ERROR, <<>>)

\* The response to another command than op: a keep-alive reply, or for
\* keep_alive itself a late set_op_state reply.
OtherFrame(op) ==
    IF op = "keep_alive" THEN GoodFrame("set_op_state") ELSE GoodFrame("keep_alive")

\* ------------------------------------------------------------- transport
\* What serial_send can return with the port open: None after com.write, or
\* the text of an exception (a fault of the line).  With the port closed it
\* writes nothing and returns None.
serial_send(isOpen, budget) ==
    IF isOpen
    THEN {[error |-> PyNone, written |-> TRUE, cost |-> 0]}
         \cup (IF budget > 0
               THEN {[error |-> Some("[serial_send] write failed"),
                      written |-> FALSE, cost |-> 1]}
               ELSE {})
    ELSE {[error |-> PyNone, written |-> FALSE, cost |-> 0]}

\* The buffers the reader module may have put on the line when the driver
\* reads the response to op: the response, a failing response, the response
\* to another command, or a stale keep-alive reply followed by the response.
\* An absent tag (a failing get_tag_report) is no fault of the line.
RxBuffers(op) ==
    { [data |-> GoodFrame(op), cost |-> 0],
      [data |-> FailFrame(op), cost |-> IF op = "get_tag_report" THEN 0 ELSE 1],
      [data |-> OtherFrame(op), cost |-> 1],
      [data |-> GoodFrame("keep_alive") \o GoodFrame(op), cost |-> 1] }

\* What serial_receive can return: (None, data) when bytes arrived,
\* ("Err1...", b"") when none did before the timeout, and ("Err2...", None)
\* when the port is not open.
serial_receive(isOpen, budget, op) ==
    IF isOpen
    THEN { [error |-> PyNone, data |-> Some(b.data), cost |-> b.cost] :
             b \in {x \in RxBuffers(op) : x.cost <= budget} }
         \cup (IF budget > 0
               THEN {[error |-> Some("Err1: No bytes from the device"),
                      data |-> Some(<<>>), cost |-> 1]}
               ELSE {})
    ELSE {[error |-> Some("Err2: Cannot open serial port."), data |-> PyNone, cost |-> 0]}

\* ------------------------------------------------------ session parameters
\* The empty dict the constructor and the worker's clear write.
NoParams == [empty |-> TRUE]

SessionParams(tagReport, soundEffect) ==
    [tagReport |-> tagReport, soundEffect |-> soundEffect,
     opRegion |-> <<70, 67, 67>>,
     ant1TxPower |-> 30, ant2TxPower |-> 30, ant3TxPower |-> 30, ant4TxPower |-> 30,
     ant1Enables |-> 1, ant2Enables |-> 0, ant3Enables |-> 1, ant4Enables |-> 0]

\* The records the producer deposits.
ParamSet == { SessionParams(TRUE, TRUE), SessionParams(TRUE, FALSE),
              SessionParams(FALSE, TRUE) }

\* The keys of errorAll and the value keys of meta_data.
ErrKeys == {"keep_alive", "opSate_set", "opRegion_set", "SET_TX_POWER",
            "SET_ANT_ENABLES", "version_get", "temp_get", "op_reg_get",
            "tx_power_get", "GET_ANT_ENABLES", "op_state_get", "tag_report_get"}
ValKeys == {"alive", "version", "temp", "op_reg", "tx_power", "ant_enables",
            "op_state", "tag_report"}

\* Loop bounds of the source.
KEEP_ALIVE_ATTEMPTS == 15
LONG_WAIT_ATTEMPTS == 5
TAG_REPORT_ATTEMPTS == 10

\* ------------------------------------------------- one operation, by steps
\* The frame of an operation being run: its locals, its place (pc), and as
\* history the frames it wrote (sends), whether keep_alive has had a non-empty
\* response (gotData) and wrote again after it (sendsAfterData), whether
\* wait_for_response_long ran (usedLong, with its probes and pacing waits), and
\* whether the call met a fault of the line (faulty).
NoRet == [error |-> PyNone, value |-> PyNone]

NewFrame(op, arg) ==
    [op |-> op, arg |-> arg, pc |-> "send", count |-> 0, error |-> PyNone,
     res |-> PyNone, ret |-> NoRet, sends |-> 0, gotData |-> FALSE,
     sendsAfterData |-> 0, usedLong |-> FALSE, probes |-> 0, waits |-> 0,
     faulty |-> FALSE, pending |-> 0]

IdleFrame == [NewFrame("none", <<>>) EXCEPT !.pc = "idle"]

\* A keep_alive that allows one attempt more.
keep_alive_one_more(c) == c < KEEP_ALIVE_ATTEMPTS + 1

\* `while count < 15` of keep_alive and `while count < 5` of
\* wait_for_response_long.
keep_alive_continues(c) == c < KEEP_ALIVE_ATTEMPTS
long_wait_continues(c) == c < LONG_WAIT_ATTEMPTS

\* keep_alive's break: not (res is None) and (res != b'').
keep_alive_breaks(r) == ~IsNone(r) /\ Val(r) # <<>>

\* wait_for_response_long's break: res[4:6] == set_response.
long_wait_breaks(r, op) == Slice(Val(r), 4, 6) = UHFBytes[op]

\* `if res == b'':` of the sets that fall back to wait_for_response_long.
falls_back_to_long(op, r) == op \in LongWaitOps /\ Val(r) = <<>>

\* The faults the line may show in the next transfer of a call: a call that
\* has met one may meet more.
Avail(f, budget) == IF f.faulty THEN 1 ELSE budget

\* serial_receive handed over bytes of the device: `if len(data) > 0`.
has_data(rx) == ~IsNone(rx.data) /\ Val(rx.data) # <<>>

\* The frame after self.send_cmd(msg) returned s.  `pending` counts the
\* commands written since the device last answered.
Sent(f, s, okPc, errPc) ==
    [f EXCEPT !.error = s.error,
              !.sends = @ + (IF s.written THEN 1 ELSE 0),
              !.pending = @ + (IF s.written THEN 1 ELSE 0),
              !.sendsAfterData = @ + (IF s.written /\ f.gotData THEN 1 ELSE 0),
              !.faulty = (@ \/ s.cost > 0),
              !.pc = IF IsNone(s.error) THEN okPc ELSE errPc]

\* The frame after wait_for_response_short raised: the call never returns.
Raised(f) == [f EXCEPT !.pc = "raised"]

\* Every set and get: error = self.send_cmd(msg); receive only if it is None.
op_send(f, isOpen, budget) ==
    IF f.pc = "send" /\ f.op # "keep_alive"
    THEN { Sent(f, s, "recv", "parse") : s \in serial_send(isOpen, Avail(f, budget)) }
    ELSE {}

\* error, res = self.wait_for_response_short(<opcode>), and for the sets that
\* have it `if res == b'': error, res = self.wait_for_response_long(<opcode>)`
\* up to its loop.  serial_receive returning no data raises in
\* wait_for_response_short.
op_recv(f, isOpen, budget) ==
    IF f.pc = "recv" /\ f.op # "keep_alive"
    THEN { LET r == wait_for_response_short(rx, short_arg(f.op)) IN
           IF r.raised THEN Raised(f)
           ELSE IF falls_back_to_long(f.op, r.res)
                THEN [f EXCEPT !.pc = "long_loop", !.count = 0, !.error = PyNone,
                               !.res = PyNone, !.usedLong = TRUE,
                               !.faulty = (@ \/ rx.cost > 0)]
                ELSE [f EXCEPT !.pc = "parse", !.error = r.error, !.res = r.res,
                               !.pending = IF has_data(rx) THEN 0 ELSE @,
                               !.faulty = (@ \/ rx.cost > 0)]
           : rx \in serial_receive(isOpen, Avail(f, budget), f.op) }
    ELSE {}

\* wait_for_response_long: count += 1; error = self.send_cmd(msg).
long_send(f, isOpen, budget) ==
    IF f.pc = "long_loop" /\ long_wait_continues(f.count)
    THEN { [Sent(f, s, "long_recv", "long_wait") EXCEPT !.count = @ + 1,
                                                          !.probes = @ + 1]
           : s \in serial_send(isOpen, Avail(f, budget)) }
    ELSE {}

\* wait_for_response_long: the loop ends and (error, res) is returned.
long_exit(f) ==
    IF f.pc = "long_loop" /\ ~long_wait_continues(f.count)
    THEN {[f EXCEPT !.pc = "parse"]}
    ELSE {}

\* wait_for_response_long: error, res = self.wait_for_response_short(set_response)
\* and the break on the expected opcode.
long_recv(f, isOpen, budget) ==
    IF f.pc = "long_recv"
    THEN { LET r == wait_for_response_short(rx, BytesArg(UHFBytes[f.op])) IN
           IF r.raised THEN Raised(f)
           ELSE [f EXCEPT !.error = r.error, !.res = r.res,
                          !.pending = IF has_data(rx) THEN 0 ELSE @,
                          !.faulty = (@ \/ rx.cost > 0),
                          !.pc = IF long_wait_breaks(r.res, f.op)
                                 THEN "parse" ELSE "long_wait"]
           : rx \in serial_receive(isOpen, Avail(f, budget), f.op) }
    ELSE {}

\* wait_for_response_long: wait_ms(1000) at the end of an iteration.
long_wait(f) ==
    IF f.pc = "long_wait"
    THEN {[f EXCEPT !.pc = "long_loop", !.waits = @ + 1]}
    ELSE {}

\* keep_alive: count += 1; error = self.send_cmd(msg).
keep_alive_send(f, isOpen, budget) ==
    IF f.pc = "send" /\ f.op = "keep_alive" /\ keep_alive_continues(f.count)
    THEN { [Sent(f, s, "recv", "wait") EXCEPT !.count = @ + 1]
           : s \in serial_send(isOpen, Avail(f, budget)) }
    ELSE {}

\* keep_alive: the loop ends after the last attempt.
keep_alive_exit(f) ==
    IF f.pc = "send" /\ f.op = "keep_alive" /\ ~keep_alive_continues(f.count)
    THEN {[f EXCEPT !.pc = "parse"]}
    ELSE {}

\* keep_alive: error, res = self.wait_for_response_short(self.REC_TIMEOUT) and
\* the break on a non-empty response.
keep_alive_recv(f, isOpen, budget) ==
    IF f.pc = "recv" /\ f.op = "keep_alive"
    THEN { LET r == wait_for_response_short(rx, short_arg(f.op)) IN
           IF r.raised THEN Raised(f)
           ELSE [f EXCEPT !.error = r.error, !.res = r.res,
                          !.gotData = (@ \/ Val(r.res) # <<>>),
                          !.pending = IF has_data(rx) THEN 0 ELSE @,
                          !.faulty = (@ \/ rx.cost > 0),
                          !.pc = IF keep_alive_breaks(r.res) THEN "parse" ELSE "wait"]
           : rx \in serial_receive(isOpen, Avail(f, budget), f.op) }
    ELSE {}

\* keep_alive: wait_ms(1000) at the end of an iteration.
keep_alive_wait(f) ==
    IF f.pc = "wait"
    THEN {[f EXCEPT !.pc = "send", !.waits = @ + 1]}
    ELSE {}

\* The response check and parse that end every operation, and its return.
op_parse(f) ==
    IF f.pc = "parse"
    THEN {[f EXCEPT !.ret = op_result(f.op, f.error, f.res), !.pc = "ret"]}
    ELSE {}

\* Every step an operation can take from frame f.
op_step(f, isOpen, budget) ==
    op_send(f, isOpen, budget) \cup op_recv(f, isOpen, budget)
    \cup long_send(f, isOpen, budget) \cup long_exit(f)
    \cup long_recv(f, isOpen, budget) \cup long_wait(f)
    \cup keep_alive_send(f, isOpen, budget) \cup keep_alive_exit(f)
    \cup keep_alive_recv(f, isOpen, budget) \cup keep_alive_wait(f)
    \cup op_parse(f)

\* ------------------------------------------- one operation, as one call
\* The frames reachable from those of `frontier`, `seen` included.
RECURSIVE frames_from(_, _, _, _)
frames_from(seen, frontier, isOpen, budget) ==
    IF frontier = {} THEN seen
    ELSE LET next == UNION { op_step(f, isOpen, budget) : f \in frontier } IN
         frames_from(seen \cup next, next \ seen, isOpen, budget)

\* How a call of op can end: what it returns, or that it raised; whether it
\* wrote to the port; whether it met a fault of the line.
run_op(op, isOpen, budget) ==
    LET start == NewFrame(op, <<>>)
        all == frames_from({start}, {start}, isOpen, budget)
    IN  { [ret |-> f.ret, raised |-> f.pc = "raised", wrote |-> f.sends > 0,
           faulty |-> f.faulty] : f \in {g \in all : g.pc \in {"ret", "raised"}} }

\* run_op, tabulated: the ends of a call by operation, by the port being open,
\* by the line being allowed a fault.
OpOutcomes ==
    UNION { { [op |-> op, isOpen |-> isOpen, allowed |-> allowed, out |-> o]
              : o \in run_op(op, isOpen, IF allowed THEN 1 ELSE 0) }
            : op \in Ops, isOpen \in BOOLEAN, allowed \in BOOLEAN }

\* The ends a call of op can have.
outcomes(op, isOpen, allowed) ==
    { r.out : r \in { x \in OpOutcomes :
                        x.op = op /\ x.isOpen = isOpen /\ x.allowed = allowed } }

\* ------------------------------------------------------------------ state
VARIABLES
    comOpen,          \* the serial port is open (self.ser.com.is_open)
    faults,           \* operation calls that may still meet faults of the line
    sentAny,          \* history: the driver has written to the port
    mutex,            \* mutex_uhf_params: "free", "worker" or "producer"
    startReading,     \* self.startReading
    uhf_params,       \* self.uhf_params
    prod,             \* the producer: "idle", or "write" inside set_uhf_params
    toDeposit,        \* deposits the producer has still to make
    nDeposits,        \* history: deposits made
    pc,               \* the place of start_reading
    err,              \* start_reading's err
    params,           \* start_reading's params
    startReading_local, \* start_reading's startReading
    errs,             \* start_reading's error_* locals, by errorAll key
    vals,             \* start_reading's value locals, by meta_data key
    i,                \* start_reading's i
    entered,          \* history: this cycle passed `if error_keep_alive is None`
    frame,            \* the operation being run step by step
    signal_give_uhf_meta_data, \* the payload of the emission just made
    nEmits,           \* history: emissions of signal_give_uhf_meta_data
    nAudio,           \* history: emissions of signal_tag_detected_audio, this cycle
    cmdLog,           \* history: the operations called in this cycle, in order
    nExits,           \* history: exits from the wait for a start flag
    errSeen,          \* history: errorAll keys whose call returned an error, this cycle
    readAny           \* history: get_uhf_params has read the channel

lineVars == <<comOpen, faults, sentAny>>
chanVars == <<mutex, startReading, uhf_params>>
prodVars == <<prod, toDeposit, nDeposits>>
sessVars == <<err, params, startReading_local, errs, vals, i, entered>>
outVars == <<signal_give_uhf_meta_data, nEmits, nAudio>>
histVars == <<cmdLog, nExits, errSeen, readAny>>
vars == <<lineVars, chanVars, prodVars, pc, sessVars, frame, outVars, histVars>>

\* The locals start_reading sets to None at the top of its loop.
NoErrs == [k \in ErrKeys |-> PyNone]
NoVals == [k \in ValKeys |-> PyNone]

\* The state after construction, but for the port, the worker and the frame.
InitCommon ==
    /\ sentAny = FALSE
    /\ mutex = "free" /\ startReading = FALSE /\ uhf_params = NoParams
    /\ prod = "idle" /\ nDeposits = 0
    /\ err = PyNone /\ params = NoParams /\ startReading_local = FALSE
    /\ errs = NoErrs /\ vals = NoVals /\ i = 0 /\ entered = FALSE
    /\ signal_give_uhf_meta_data = PyNone /\ nEmits = 0 /\ nAudio = 0
    /\ cmdLog = <<>> /\ nExits = 0 /\ errSeen = {} /\ readAny = FALSE

\* The worker thread is about to run start_reading.
Init ==
    /\ InitCommon
    /\ comOpen = FALSE /\ faults = MaxFaults /\ toDeposit = MaxDeposits
    /\ pc = "open" /\ frame = IdleFrame

\* The same on a line that shows no fault.
InitQuiet ==
    /\ InitCommon
    /\ comOpen = FALSE /\ faults = 0 /\ toDeposit = QuietDeposits
    /\ pc = "open" /\ frame = IdleFrame

\* ------------------------------------------- an operation called by the host
\* One step of the operation: the frame moves, the call's first fault is
\* counted, a written frame is remembered.
StepTo(f) ==
    /\ frame' = f
    /\ faults' = IF f.faulty /\ ~frame.faulty THEN faults - 1 ELSE faults
    /\ sentAny' = (sentAny \/ f.sends > frame.sends)
    /\ UNCHANGED <<comOpen, chanVars, prodVars, pc, sessVars, outVars, histVars>>

OpSend == \E f \in op_send(frame, comOpen, faults) : StepTo(f)
OpRecv == \E f \in op_recv(frame, comOpen, faults) : StepTo(f)
LongSend == \E f \in long_send(frame, comOpen, faults) : StepTo(f)
LongExit == \E f \in long_exit(frame) : StepTo(f)
LongRecv == \E f \in long_recv(frame, comOpen, faults) : StepTo(f)
LongWait == \E f \in long_wait(frame) : StepTo(f)
KeepAliveSend == \E f \in keep_alive_send(frame, comOpen, faults) : StepTo(f)
KeepAliveExit == \E f \in keep_alive_exit(frame) : StepTo(f)
KeepAliveRecv == \E f \in keep_alive_recv(frame, comOpen, faults) : StepTo(f)
KeepAliveWait == \E f \in keep_alive_wait(frame) : StepTo(f)
OpParse == \E f \in op_parse(frame) : StepTo(f)

\* close_serial_port, called from the host's thread: self.ser.serial_close().
close_serial_port ==
    /\ comOpen
    /\ comOpen' = FALSE
    /\ UNCHANGED <<faults, sentAny, chanVars, prodVars, pc, sessVars, frame,
                   outVars, histVars>>

\* The arguments the operations are called with.
OpArgs(op) ==
    CASE op = "set_op_state" -> {<<IDLE>>, <<TAG_READ>>}
      [] op = "set_op_region" -> {<< <<70, 67, 67>> >>}
      [] op = "set_tx_power" -> {<<30, 30, 30, 30>>}
      [] op = "set_ant_enables" -> {<<1, 0, 1, 0>>}
      [] op = "set_operational_param" -> {<< <<0, 3>>, 50000 >>}
      [] op = "set_event_mask" -> {<<1, 1, 1, 1, 1, 1>>}
      [] op = "get_operational_params" -> {<< <<0, 3>> >>}
      [] OTHER -> {<<>>}

\* The port is open and the host has called one operation of the catalog.
InitOp ==
    /\ InitCommon
    /\ comOpen = TRUE /\ faults = MaxFaults /\ toDeposit = 0
    /\ pc = "host"
    /\ frame \in { NewFrame(op, arg) : op \in Ops, arg \in UNION {OpArgs(o) : o \in Ops} }
    /\ frame.arg \in OpArgs(frame.op)

NextOp ==
    \/ OpSend \/ OpRecv \/ LongSend \/ LongExit \/ LongRecv \/ LongWait
    \/ KeepAliveSend \/ KeepAliveExit \/ KeepAliveRecv \/ KeepAliveWait
    \/ OpParse \/ close_serial_port

SpecOp == InitOp /\ [][NextOp]_vars

\* ---------------------------------------------------------- start_reading
CallSites == {"await_keep_alive", "set_idle_1", "set_op_region", "set_tx_power",
              "set_ant_enables", "get_version", "get_temp", "get_op_region",
              "get_tx_power", "get_ant_enables", "keep_alive_1", "keep_alive_2",
              "set_tag_read", "get_op_state", "get_tag_report", "set_idle_2"}

site_op(site) ==
    CASE site \in {"await_keep_alive", "keep_alive_1", "keep_alive_2"} -> "keep_alive"
      [] site \in {"set_idle_1", "set_tag_read", "set_idle_2"} -> "set_op_state"
      [] OTHER -> site

\* A start_reading that passes the two operating states the other way round.
site_arg_states_swapped(site, p) ==
    CASE site \in {"set_idle_1", "set_idle_2"} -> <<TAG_READ>>
      [] site = "set_tag_read" -> <<IDLE>>
      [] site = "set_op_region" -> <<p.opRegion>>
      [] site = "set_tx_power" ->
            <<p.ant1TxPower, p.ant2TxPower, p.ant3TxPower, p.ant4TxPower>>
      [] site = "set_ant_enables" ->
            <<p.ant1Enables, p.ant2Enables, p.ant3Enables, p.ant4Enables>>
      [] OTHER -> <<>>

\* The arguments start_reading passes at each call.
site_arg(site, p) ==
    CASE site \in {"set_idle_1", "set_idle_2"} -> <<IDLE>>
      [] site = "set_tag_read" -> <<TAG_READ>>
      [] site = "set_op_region" -> <<p.opRegion>>
      [] site = "set_tx_power" ->
            <<p.ant1TxPower, p.ant2TxPower, p.ant3TxPower, p.ant4TxPower>>
      [] site = "set_ant_enables" ->
            <<p.ant1Enables, p.ant2Enables, p.ant3Enables, p.ant4Enables>>
      [] OTHER -> <<>>

\* The error_* local each call assigns, by its errorAll key.
site_err(site) ==
    CASE site \in {"await_keep_alive", "keep_alive_1", "keep_alive_2"} -> "keep_alive"
      [] site \in {"set_idle_1", "set_tag_read", "set_idle_2"} -> "opSate_set"
      [] site = "set_op_region" -> "opRegion_set"
      [] site = "set_tx_power" -> "SET_TX_POWER"
      [] site = "set_ant_enables" -> "SET_ANT_ENABLES"
      [] site = "get_version" -> "version_get"
      [] site = "get_temp" -> "temp_get"
      [] site = "get_op_region" -> "op_reg_get"
      [] site = "get_tx_power" -> "tx_power_get"
      [] site = "get_ant_enables" -> "GET_ANT_ENABLES"
      [] site = "get_op_state" -> "op_state_get"
      [] site = "get_tag_report" -> "tag_report_get"

\* The value local each call assigns, by its meta_data key ("": none).
site_val(site) ==
    CASE site \in {"await_keep_alive", "keep_alive_1", "keep_alive_2"} -> "alive"
      [] site = "get_version" -> "version"
      [] site = "get_temp" -> "temp"
      [] site = "get_op_region" -> "op_reg"
      [] site = "get_tx_power" -> "tx_power"
      [] site = "get_ant_enables" -> "ant_enables"
      [] site = "get_op_state" -> "op_state"
      [] site = "get_tag_report" -> "tag_report"
      [] OTHER -> ""

\* A start_reading that leaves ReadingTags without the last set_op_state once a
\* tag report is there.
after_return_skips_idle(site, r) ==
    CASE site = "await_keep_alive" -> "await_sleep"
      [] site = "set_idle_1" -> "set_op_region"
      [] site = "set_op_region" -> "set_tx_power"
      [] site = "set_tx_power" -> "set_ant_enables"
      [] site = "set_ant_enables" -> "get_version"
      [] site = "get_version" -> "get_temp"
      [] site = "get_temp" -> "get_op_region"
      [] site = "get_op_region" -> "get_tx_power"
      [] site = "get_tx_power" -> "get_ant_enables"
      [] site = "get_ant_enables" -> "keep_alive_1"
      [] site = "keep_alive_1" -> "keep_alive_2"
      [] site = "keep_alive_2" -> "tag_check"
      [] site = "set_tag_read" -> "get_op_state"
      [] site = "get_op_state" -> "tag_loop"
      [] site = "get_tag_report" ->
            IF ~IsNone(r.value) THEN "sound" ELSE "tag_loop"
      [] site = "set_idle_2" -> "sound"

\* A start_reading that goes to the emission as soon as a Configuring call
\* returns an error.
after_return_aborts(site, r) ==
    IF site \in {"set_idle_1", "set_op_region", "set_tx_power", "set_ant_enables",
                 "get_version", "get_temp", "get_op_region", "get_tx_power",
                 "get_ant_enables", "keep_alive_1"} /\ ~IsNone(r.error)
    THEN "emit"
    ELSE IF site = "get_tag_report" /\ ~IsNone(r.value) THEN "set_idle_2"
    ELSE after_return_skips_idle(site, r)

\* Where start_reading goes on after the call at site returned r.
after_return(site, r) ==
    CASE site = "await_keep_alive" -> "await_sleep"
      [] site = "set_idle_1" -> "set_op_region"
      [] site = "set_op_region" -> "set_tx_power"
      [] site = "set_tx_power" -> "set_ant_enables"
      [] site = "set_ant_enables" -> "get_version"
      [] site = "get_version" -> "get_temp"
      [] site = "get_temp" -> "get_op_region"
      [] site = "get_op_region" -> "get_tx_power"
      [] site = "get_tx_power" -> "get_ant_enables"
      [] site = "get_ant_enables" -> "keep_alive_1"
      [] site = "keep_alive_1" -> "keep_alive_2"
      [] site = "keep_alive_2" -> "tag_check"
      [] site = "set_tag_read" -> "get_op_state"
      [] site = "get_op_state" -> "tag_loop"
      [] site = "get_tag_report" ->
            IF ~IsNone(r.value) THEN "set_idle_2" ELSE "tag_loop"
      [] site = "set_idle_2" -> "sound"

\* `if error_keep_alive is None:` after AwaitingStart.
cycle_runs(e) == IsNone(e.keep_alive)

\* A start_reading that reads tags whatever tagReport says.
reads_tags_always(p) == TRUE

\* `if tagReport:`.
reads_tags(p) == p.tagReport

\* A tag loop that allows one attempt more.
tag_loop_one_more(n) == n < TAG_REPORT_ATTEMPTS + 1

\* `while i < 10`.
tag_loop_continues(n) == n < TAG_REPORT_ATTEMPTS

\* A start_reading that signals the audio cue whenever soundEffect is set.
plays_audio_always(p, e) == p.soundEffect

\* `if soundEffect:` and `if not error_tag_report_get:`.
plays_audio(p, e) == p.soundEffect /\ IsNone(e.tag_report_get)

\* The name a call is logged under.
cmd_tag(op, arg) ==
    IF op = "set_op_state"
    THEN (IF arg[1] = IDLE THEN "set_op_state:IDLE" ELSE "set_op_state:TAG_READ")
    ELSE op

\* meta_data of a cycle.
meta_data(e, v) ==
    [error |-> e, alive |-> v.alive, version |-> v.version, temp |-> v.temp,
     op_reg |-> v.op_reg, tx_power |-> v.tx_power, ant_enables |-> v.ant_enables,
     op_state |-> v.op_state, tag_report |-> v.tag_report]

\* err = self.ser.serial_open(): the port opens, or the exception's text is
\* returned.
SerialOpen ==
    /\ pc = "open"
    /\ \E ok \in BOOLEAN :
         /\ comOpen' = ok
         /\ err' = IF ok THEN PyNone ELSE Some("[serial_open] could not open port")
         /\ pc' = IF ok THEN "loop_top" ELSE "open_failed"
    /\ UNCHANGED <<faults, sentAny, chanVars, prodVars, params, startReading_local,
                   errs, vals, i, entered, frame, outVars, histVars>>

\* The else branch: emit {"error": err} and return err.
EmitOpenError ==
    /\ pc = "open_failed"
    /\ signal_give_uhf_meta_data' = Some([error |-> err])
    /\ nEmits' = nEmits + 1
    /\ pc' = "returned"
    /\ UNCHANGED <<lineVars, chanVars, prodVars, sessVars, frame, nAudio, histVars>>

\* The top of `while True`: every local is set to None, startReading to False,
\* params to {}.
LoopTop ==
    /\ pc = "loop_top"
    /\ errs' = NoErrs /\ vals' = NoVals
    /\ params' = NoParams /\ startReading_local' = FALSE
    /\ i' = 0 /\ entered' = FALSE
    /\ signal_give_uhf_meta_data' = PyNone /\ nAudio' = 0
    /\ cmdLog' = <<>> /\ errSeen' = {}
    /\ pc' = "get_lock"
    /\ UNCHANGED <<lineVars, chanVars, prodVars, err, frame, nEmits, nExits, readAny>>

\* A get_uhf_params that does not wait for the mutex.
GetLockUnguarded ==
    /\ pc = "get_lock"
    /\ mutex' = "worker"
    /\ pc' = "get_read"
    /\ UNCHANGED <<lineVars, startReading, uhf_params, prodVars, sessVars, frame,
                   outVars, histVars>>

\* get_uhf_params: tryLock(-1) waits for the mutex.
GetLock ==
    /\ pc = "get_lock" /\ mutex = "free"
    /\ mutex' = "worker"
    /\ pc' = "get_read"
    /\ UNCHANGED <<lineVars, startReading, uhf_params, prodVars, sessVars, frame,
                   outVars, histVars>>

\* A get_uhf_params that takes the deposit out of the channel as it reads it.
GetReadDestructive ==
    /\ pc = "get_read"
    /\ params' = uhf_params /\ startReading_local' = startReading
    /\ startReading' = FALSE /\ uhf_params' = NoParams
    /\ mutex' = "free"
    /\ readAny' = TRUE
    /\ pc' = "await_keep_alive"
    /\ UNCHANGED <<lineVars, prodVars, err, errs, vals, i,
                   entered, frame, outVars, cmdLog, nExits, errSeen>>

\* A wait for the start flag that tests the flag before it calls keep_alive.
GetReadTestsFirst ==
    /\ pc = "get_read"
    /\ params' = uhf_params /\ startReading_local' = startReading
    /\ mutex' = "free"
    /\ readAny' = TRUE
    /\ pc' = IF startReading THEN "clear_lock" ELSE "await_keep_alive"
    /\ UNCHANGED <<lineVars, startReading, uhf_params, prodVars, err, errs, vals, i,
                   entered, frame, outVars, cmdLog, nExits, errSeen>>

\* get_uhf_params: read the flag and the record, unlock, return them.
GetRead ==
    /\ pc = "get_read"
    /\ params' = uhf_params /\ startReading_local' = startReading
    /\ mutex' = "free"
    /\ readAny' = TRUE
    /\ pc' = "await_keep_alive"
    /\ UNCHANGED <<lineVars, startReading, uhf_params, prodVars, err, errs, vals, i,
                   entered, frame, outVars, cmdLog, nExits, errSeen>>

\* A wait for the start flag that ends after one keep_alive, flag or not.
AwaitSleepOnce ==
    /\ pc = "await_sleep"
    /\ pc' = "clear_lock"
    /\ UNCHANGED <<lineVars, chanVars, prodVars, sessVars, frame, outVars, histVars>>

\* wait_ms(1000) and the test of `while not startReading`.
AwaitSleep ==
    /\ pc = "await_sleep"
    /\ pc' = IF startReading_local THEN "clear_lock" ELSE "get_lock"
    /\ UNCHANGED <<lineVars, chanVars, prodVars, sessVars, frame, outVars, histVars>>

\* self.set_uhf_params(False, {}): tryLock(-1) waits for the mutex.
ClearLock ==
    /\ pc = "clear_lock" /\ mutex = "free"
    /\ mutex' = "worker"
    /\ pc' = "clear_write"
    /\ UNCHANGED <<lineVars, startReading, uhf_params, prodVars, sessVars, frame,
                   outVars, histVars>>

\* self.set_uhf_params(False, {}): write, unlock.
ClearWrite ==
    /\ pc = "clear_write"
    /\ startReading' = FALSE /\ uhf_params' = NoParams
    /\ mutex' = "free"
    /\ nExits' = nExits + 1
    /\ pc' = "check"
    /\ UNCHANGED <<lineVars, prodVars, sessVars, frame, outVars, cmdLog, errSeen, readAny>>

\* `if error_keep_alive is None:`.
CheckAlive ==
    /\ pc = "check"
    /\ entered' = cycle_runs(errs)
    /\ pc' = IF cycle_runs(errs) THEN "set_idle_1" ELSE "emit"
    /\ UNCHANGED <<lineVars, chanVars, prodVars, err, params, startReading_local,
                   errs, vals, i, frame, outVars, histVars>>

\* One call of an operation by start_reading, from the call to the assignment
\* of what it returned.
CallOp ==
    /\ pc \in CallSites
    /\ \E o \in outcomes(site_op(pc), comOpen, faults > 0) :
         /\ ~o.raised
         /\ faults' = IF o.faulty THEN faults - 1 ELSE faults
         /\ sentAny' = (sentAny \/ o.wrote)
         /\ pc' = after_return(pc, o.ret)
         /\ errs' = [errs EXCEPT ![site_err(pc)] = o.ret.error]
         /\ vals' = IF site_val(pc) = "" THEN vals
                    ELSE [vals EXCEPT ![site_val(pc)] = o.ret.value]
         /\ errSeen' = IF IsNone(o.ret.error) THEN errSeen
                       ELSE errSeen \cup {site_err(pc)}
    /\ cmdLog' = IF pc = "await_keep_alive" THEN cmdLog
                 ELSE Append(cmdLog, cmd_tag(site_op(pc), site_arg(pc, params)))
    /\ UNCHANGED <<comOpen, chanVars, prodVars, err, params, startReading_local, i,
                   entered, frame, outVars, nExits, readAny>>

\* A call of an operation by start_reading raises: nothing in start_reading or
\* in the thread's run catches it, the thread ends and its locals (and the
\* history of the cycle) go with it.
CallRaises ==
    /\ pc \in CallSites
    /\ \E o \in outcomes(site_op(pc), comOpen, faults > 0) :
         /\ o.raised
         /\ faults' = IF o.faulty THEN faults - 1 ELSE faults
         /\ sentAny' = (sentAny \/ o.wrote)
    /\ pc' = "crashed"
    /\ params' = NoParams /\ startReading_local' = FALSE
    /\ errs' = NoErrs /\ vals' = NoVals /\ i' = 0 /\ entered' = FALSE
    /\ nAudio' = 0 /\ cmdLog' = <<>> /\ errSeen' = {}
    /\ UNCHANGED <<comOpen, chanVars, prodVars, err, frame,
                   signal_give_uhf_meta_data, nEmits, nExits, readAny>>

\* `if tagReport:`.
TagCheck ==
    /\ pc = "tag_check"
    /\ pc' = IF reads_tags(params) THEN "set_tag_read" ELSE "emit"
    /\ UNCHANGED <<lineVars, chanVars, prodVars, sessVars, frame, outVars, histVars>>

\* A tag loop that spins: `while i < 10:` with neither `i += 1` nor a way out.
TagLoopSpins ==
    /\ pc = "tag_loop"
    /\ IF tag_loop_continues(i)
       THEN i' = i /\ pc' = "tag_loop"
       ELSE i' = i /\ pc' = "set_idle_2"
    /\ UNCHANGED <<lineVars, chanVars, prodVars, err, params, startReading_local,
                   errs, vals, entered, frame, outVars, histVars>>

\* `while i < 10:` and `i += 1`.
TagLoop ==
    /\ pc = "tag_loop"
    /\ IF tag_loop_continues(i)
       THEN i' = i + 1 /\ pc' = "get_tag_report"
       ELSE i' = i /\ pc' = "set_idle_2"
    /\ UNCHANGED <<lineVars, chanVars, prodVars, err, params, startReading_local,
                   errs, vals, entered, frame, outVars, histVars>>

\* `if soundEffect:` / `if not error_tag_report_get:` / signal_tag_detected_audio.emit().
Sound ==
    /\ pc = "sound"
    /\ nAudio' = IF plays_audio(params, errs) THEN nAudio + 1 ELSE nAudio
    /\ pc' = "emit"
    /\ UNCHANGED <<lineVars, chanVars, prodVars, sessVars, frame,
                   signal_give_uhf_meta_data, nEmits, histVars>>

\* A start_reading that emits and stays at the emission.
EmitAgain ==
    /\ pc = "emit" /\ nEmits <= nExits
    /\ signal_give_uhf_meta_data' = Some(meta_data(errs, vals))
    /\ nEmits' = nEmits + 1
    /\ pc' = "emit"
    /\ UNCHANGED <<lineVars, chanVars, prodVars, sessVars, frame, nAudio, histVars>>

\* self.signal_give_uhf_meta_data.emit(True, meta_data), and back to the top.
Emit ==
    /\ pc = "emit"
    /\ signal_give_uhf_meta_data' = Some(meta_data(errs, vals))
    /\ nEmits' = nEmits + 1
    /\ pc' = "loop_top"
    /\ UNCHANGED <<lineVars, chanVars, prodVars, sessVars, frame, nAudio, histVars>>

\* ---------------------------------------------------------------- producer
\* The host calls set_uhf_params(True, p): tryLock(-1) waits for the mutex.
ProducerLock ==
    /\ prod = "idle" /\ mutex = "free" /\ toDeposit > 0
    /\ mutex' = "producer"
    /\ prod' = "write"
    /\ UNCHANGED <<lineVars, startReading, uhf_params, toDeposit, nDeposits, pc,
                   sessVars, frame, outVars, histVars>>

\* set_uhf_params(True, p): write, unlock.
ProducerWrite ==
    /\ prod = "write"
    /\ \E p \in ParamSet : uhf_params' = p
    /\ startReading' = TRUE
    /\ mutex' = "free"
    /\ prod' = "idle"
    /\ toDeposit' = toDeposit - 1 /\ nDeposits' = nDeposits + 1
    /\ UNCHANGED <<lineVars, pc, sessVars, frame, outVars, histVars>>

Next ==
    \/ SerialOpen \/ EmitOpenError \/ LoopTop
    \/ GetLock \/ GetRead \/ AwaitSleep \/ ClearLock \/ ClearWrite \/ CheckAlive
    \/ CallOp \/ CallRaises \/ TagCheck \/ TagLoop \/ Sound \/ Emit
    \/ (pc # "open" /\ pc # "open_failed" /\ pc # "returned" /\ close_serial_port)
    \/ ProducerLock \/ ProducerWrite

Spec == Init /\ [][Next]_vars

SpecQuiet == InitQuiet /\ [][Next]_vars

\* ------------------------------------------ the worker under fair scheduling
\* The worker thread is about to run start_reading and the host will make one
\* deposit: one cycle on a line with faults.
InitLive ==
    /\ InitCommon
    /\ comOpen = FALSE /\ faults = MaxFaults /\ toDeposit = 1
    /\ pc = "open" /\ frame = IdleFrame

\* Every step of the worker thread while the port stays open.
Worker ==
    \/ SerialOpen \/ EmitOpenError \/ LoopTop
    \/ GetLock \/ GetRead \/ AwaitSleep \/ ClearLock \/ ClearWrite \/ CheckAlive
    \/ CallOp \/ TagCheck \/ TagLoop \/ Sound \/ Emit

NextLive == Worker \/ ProducerLock \/ ProducerWrite

\* The worker thread is scheduled whenever it can take a step; the producer
\* deposits when the host pleases.
SpecLive == InitLive /\ [][NextLive]_vars /\ WF_vars(Worker)

\* The same scheduling on a line that shows no fault, where the reader module
\* answers every keep_alive, and the host makes QuietDeposits deposits.
SpecQuietLive == InitQuiet /\ [][NextLive]_vars /\ WF_vars(Worker)

\* ------------------------------------- wait_for_response_short on its own
\* A tag report whose timestamp holds the bytes f6 28.
MarkedReport ==
    RespFrame(UHFBytes["get_tag_report"], STATUS_SUCCESS,
              <<0, 1, 255, 200, 255, 190, 0, 0, 246, 40, 0, 1, 0, 12>>)

\* The frames the reader module may have put on the line.
LineFrames ==
    { GoodFrame("keep_alive"), GoodFrame("get_temp"), GoodFrame("set_op_state"),
      FailFrame("get_tag_report"), MarkedReport }

\* The buffer made of the frames of parts, in order.
RECURSIVE concat(_)
concat(parts) ==
    IF Len(parts) = 0 THEN <<>> ELSE Head(parts) \o concat(Tail(parts))

\* What serial_receive returns for the bytes data read from an open port.
received(data) ==
    IF Len(data) > 0 THEN [error |-> PyNone, data |-> Some(data)]
    ELSE [error |-> Some("Err1: No bytes from the device"), data |-> Some(<<>>)]

\* The opcodes wait_for_response_short is called with.
ShortArgs == { short_arg(op) : op \in {"get_temp", "get_tag_report", "set_op_state",
                                       "keep_alive"} }

\* wait_for_response_short has been called and serial_receive has read a
\* buffer of at most MaxFrames frames, the last of them possibly short of its
\* last bytes (cut), or the port was not open (closed).
InitShort ==
    /\ InitCommon
    /\ comOpen = TRUE /\ faults = 0 /\ toDeposit = 0
    /\ pc = "host"
    /\ \E n \in 0..MaxFrames : \E parts \in [1..n -> LineFrames] :
       \E cut \in {0, 3} : \E arg \in ShortArgs : \E closed \in BOOLEAN :
         /\ cut <= Len(concat(parts))
         /\ closed => (n = 0 /\ arg = short_arg("get_temp"))
         /\ frame = [op |-> "wait_for_response_short", pc |-> "call",
                     parts |-> parts, cut |-> cut, set_response |-> arg,
                     rx |-> IF closed
                            THEN CHOOSE r \in serial_receive(FALSE, 0, "get_temp") : TRUE
                            ELSE received(SubSeq(concat(parts), 1,
                                                 Len(concat(parts)) - cut)),
                     out |-> PyNone]

\* The body of wait_for_response_short, from the return of serial_receive.
ShortCall ==
    /\ frame.pc = "call"
    /\ frame' = [frame EXCEPT
                   !.out = Some(wait_for_response_short(frame.rx, frame.set_response)),
                   !.pc = "done"]
    /\ UNCHANGED <<lineVars, chanVars, prodVars, pc, sessVars, outVars, histVars>>

SpecShort == InitShort /\ [][ShortCall]_vars

\* ------------------------------------------- the catalog's pure functions
\* Characters of the region strings the host may pass: 'F', 'C' and a
\* character outside ASCII.
RegionChars == {70, 67, 233}

\* The strings of up to MaxRegionLen of these characters.
RegionStrings == UNION { [1..n -> RegionChars] : n \in 0..MaxRegionLen }

Flags == {0, 1}

\* The arguments the host may call an operation with when only its request
\* frame is looked at.
RequestArgs(op) ==
    CASE op = "set_op_state" -> {<<IDLE>>, <<TAG_READ>>}
      [] op = "set_op_region" -> { <<r>> : r \in RegionStrings }
      [] op = "set_tx_power" -> { <<a, b, c, d>> : a, b \in {0, 30}, c, d \in {30, 655} }
      [] op = "set_ant_enables" -> Flags \X Flags \X Flags \X Flags
      [] op = "set_operational_param" ->
            { << <<0, code>>, v >> : code \in 1..7, v \in {0, 50000, 2147483647} }
      [] op = "set_event_mask" -> Flags \X Flags \X Flags \X Flags \X Flags \X Flags
      [] op = "get_operational_params" -> { << <<0, code>> >> : code \in 1..7 }
      [] OTHER -> {<<>>}

\* Temperatures the reader module may report, in hundredths of a degree on
\* two bytes: the example of the source among them.
TempPayloads == { <<16, 100>>, <<0, 0>>, <<0, 255>>, <<1, 0>>, <<255, 255>> }

\* Revision strings the reader module may report: "1.0", "1.2.0", "2.0.0",
\* "1.10.0".
RevisionStrings ==
    { <<49, 46, 48>>, <<49, 46, 50, 46, 48>>, <<50, 46, 48, 46, 48>>,
      <<49, 46, 49, 48, 46, 48>> }

\* The payload of a GetVersion response: four null-terminated strings.
VersionPayloads ==
    { f[1] \o <<0>> \o f[2] \o <<0>> \o f[3] \o <<0>> \o f[4] \o <<0>> :
        f \in [1..4 -> RevisionStrings] }

\* Values of a 16-bit field of a response: those of the tables of the source,
\* the next ones and the extremes.
EnumValues == 0..12 \cup {255, 256, 257, 32768, 65535}

\* Two-byte fields of a tag report: those of the example of the source, zero,
\* and both sides of the sign bit.
TagWords == { <<6, 7>>, <<231, 46>>, <<0, 0>>, <<0, 2>>, <<127, 255>>, <<128, 0>>, <<255, 255>> }

\* Four-byte timestamps of a tag report: the example of the source, one that
\* differs by byte order, and the largest below 2^31.
TagTimestamps == { <<98, 182, 53, 206>>, <<0, 0, 1, 2>>, <<127, 255, 255, 255>> }

\* The payload of a GetTagReport response: reply reason 6, RSSI, power,
\* timestamp, antenna and the two bytes that follow.
TagReportPayloads ==
    { <<0, 6>> \o w[1] \o w[2] \o t \o w[3] \o <<0, 20>> :
        w \in [1..3 -> TagWords], t \in TagTimestamps }

\* Responses to other commands still in the buffer when keep_alive receives.
StaleFrames == { GoodFrame("get_temp"), GoodFrame("set_op_state"), FailFrame("get_tag_report") }

\* Buffers that hold a complete successful keep-alive response: alone, after
\* a stale frame, before a stale frame.
KeepAliveBuffers ==
    { GoodFrame("keep_alive") }
    \cup { st \o GoodFrame("keep_alive") : st \in StaleFrames }
    \cup { GoodFrame("keep_alive") \o st : st \in StaleFrames }

\* The successful responses whose parsing is looked at, by operation.
ParseInputs ==
    { <<"get_temp", RespFrame(UHFBytes["get_temp"], STATUS_SUCCESS, p)>> : p \in TempPayloads }
    \cup { <<"get_version", RespFrame(UHFBytes["get_version"], STATUS_SUCCESS, p)>> :
             p \in VersionPayloads }
    \cup { <<"get_op_state",
              RespFrame(UHFBytes["get_op_state"], STATUS_SUCCESS, <<0, 0>> \o to_bytes2(v))>> :
             v \in EnumValues }
    \cup { <<"get_operational_params",
              RespFrame(UHFBytes["get_operational_params"], STATUS_SUCCESS,
                        to_bytes2(v) \o <<0, 0, 234, 96>>)>> :
             v \in EnumValues }
    \cup { <<"get_tag_report",
              RespFrame(UHFBytes["get_tag_report"], STATUS_SUCCESS,
                        to_bytes2(v) \o <<6, 7, 231, 46, 98, 182, 53, 206, 0, 2, 0, 20>>)>> :
             v \in EnumValues }
    \cup { <<"get_tag_report", RespFrame(UHFBytes["get_tag_report"], STATUS_SUCCESS, p)>> :
             p \in TagReportPayloads }
    \cup { <<"keep_alive", b>> : b \in KeepAliveBuffers }

\* The payload variants of build_cmd: no word1; a string; one 16-bit word;
\* four 16-bit words; a 32-bit integer; a parameter code and a 32-bit value;
\* bytes given in hex.
PayloadVariants ==
    << [word1 |-> PyNone, word2 |-> PyNone, word3 |-> PyNone, word4 |-> PyNone,
        word_type |-> "str"],
       [word1 |-> Some(<<70, 67, 67>>), word2 |-> PyNone, word3 |-> PyNone, word4 |-> PyNone,
        word_type |-> "str"],
       [word1 |-> Some(5), word2 |-> PyNone, word3 |-> PyNone, word4 |-> PyNone,
        word_type |-> "int"],
       [word1 |-> Some(3000), word2 |-> Some(2500), word3 |-> Some(1), word4 |-> Some(65535),
        word_type |-> "int"],
       [word1 |-> Some(63), word2 |-> PyNone, word3 |-> PyNone, word4 |-> PyNone,
        word_type |-> "int32"],
       [word1 |-> Some(<<0, 1>>), word2 |-> Some(60000), word3 |-> PyNone, word4 |-> PyNone,
        word_type |-> "uint32_t"],
       [word1 |-> Some(<<0, 4>>), word2 |-> PyNone, word3 |-> PyNone, word4 |-> PyNone,
        word_type |-> "byt"] >>

\* The bytes build_cmd appends to the header for a variant.
encoded_payload(variant) ==
    IF IsNone(variant.word1) THEN <<>>
    ELSE cmd_payload(variant.word1, variant.word2, variant.word3, variant.word4,
                     variant.word_type)

\* The calls of build_cmd: a declared length, an opcode, a payload variant.
BuildCmdCalls ==
    { [fn |-> "build_cmd", op |-> "build_cmd", arg |-> <<length, cr_opcode, variant>>,
       pc |-> "call", out |-> PyNone] :
        length \in 4..(12 + MaxPad), cr_opcode \in {1, 12}, variant \in DOMAIN PayloadVariants }

\* The calls of the pure functions: the function, its input, its result.
PureCalls ==
    { [fn |-> "request", op |-> c[1], arg |-> c[2], pc |-> "call", out |-> PyNone] :
        c \in UNION { {op} \X RequestArgs(op) : op \in Ops } }
    \cup { [fn |-> "pack_unpack", op |-> c[1], arg |-> c[2], pc |-> "call", out |-> PyNone] :
             c \in UNION { {op} \X RequestArgs(op) : op \in {"set_ant_enables", "set_event_mask"} } }
    \cup { [fn |-> "parse", op |-> c[1], arg |-> c[2], pc |-> "call", out |-> PyNone] :
             c \in ParseInputs }
    \cup { [fn |-> "code_to_param", op |-> "code_to_param", arg |-> << <<code>> >>, pc |-> "call",
            out |-> PyNone] : code \in 0..65535 }
    \cup BuildCmdCalls

InitPure ==
    /\ InitCommon
    /\ comOpen = TRUE /\ faults = 0 /\ toDeposit = 0
    /\ pc = "host"
    /\ frame \in PureCalls

\* An operation builds its request frame.
BuildRequest ==
    /\ frame.pc = "call" /\ frame.fn = "request"
    /\ frame' = [frame EXCEPT !.out = Some(request(frame.op, frame.arg)), !.pc = "done"]
    /\ UNCHANGED <<lineVars, chanVars, prodVars, pc, sessVars, outVars, histVars>>

\* set_ant_enables / create_event_mask pack the flags into the integer of the
\* request, and get_ant_enables / get_event_mask unpack the same integer from
\* a successful response that carries it.
PackUnpack ==
    /\ frame.pc = "call" /\ frame.fn = "pack_unpack"
    /\ LET a == frame.arg
           packed == IF frame.op = "set_ant_enables"
                     THEN pack_ant_enables(a[1], a[2], a[3], a[4])
                     ELSE create_event_mask(a[1], a[2], a[3], a[4], a[5], a[6])
           getter == IF frame.op = "set_ant_enables" THEN "get_ant_enables"
                     ELSE "get_event_mask"
           res == RespFrame(UHFBytes[getter], STATUS_SUCCESS,
                            IF frame.op = "set_ant_enables" THEN to_bytes2(packed)
                            ELSE to_bytes4(packed))
       IN  frame' = [frame EXCEPT !.out = Some([packed |-> packed,
                                                got |-> get_result(getter, PyNone, Some(res))]),
                                  !.pc = "done"]
    /\ UNCHANGED <<lineVars, chanVars, prodVars, pc, sessVars, outVars, histVars>>

\* A get operation receives the buffer frame.arg: wait_for_response_short,
\* the check of status and opcode, the parse.
ParseResponse ==
    /\ frame.pc = "call" /\ frame.fn = "parse"
    /\ LET r == wait_for_response_short(received(frame.arg), short_arg(frame.op))
       IN  frame' = [frame EXCEPT !.out = Some(get_result(frame.op, r.error, r.res)),
                                  !.pc = "done"]
    /\ UNCHANGED <<lineVars, chanVars, prodVars, pc, sessVars, outVars, histVars>>

\* code_to_param is called with an integer code (frame.arg[1][1]).
CodeToParam ==
    /\ frame.pc = "call" /\ frame.fn = "code_to_param"
    /\ frame' = [frame EXCEPT !.out = Some(code_to_param(frame.arg[1][1])), !.pc = "done"]
    /\ UNCHANGED <<lineVars, chanVars, prodVars, pc, sessVars, outVars, histVars>>

\* build_cmd is called with the length frame.arg[1], the opcode frame.arg[2]
\* and the words of the variant frame.arg[3].
BuildCmd ==
    /\ frame.pc = "call" /\ frame.fn = "build_cmd"
    /\ LET variant == PayloadVariants[frame.arg[3]]
       IN  frame' = [frame EXCEPT
                       !.out = Some(build_cmd(frame.arg[1], frame.arg[2], variant.word1,
                                              variant.word2, variant.word3, variant.word4,
                                              variant.word_type)),
                       !.pc = "done"]
    /\ UNCHANGED <<lineVars, chanVars, prodVars, pc, sessVars, outVars, histVars>>

NextPure == BuildRequest \/ PackUnpack \/ ParseResponse \/ CodeToParam \/ BuildCmd

SpecPure == InitPure /\ [][NextPure]_vars

\* ----------------------------------------------------------------- claims
\* A cycle's result has just been emitted: the locals it was built from and
\* the history of the cycle are still there.
Emitted == pc = "loop_top" /\ ~IsNone(signal_give_uhf_meta_data)

\* The cycle passed from Configuring into ReadingTags.
EnteredReadingTags == \E k \in DOMAIN cmdLog : cmdLog[k] = "set_op_state:TAG_READ"

\* The calls of Configuring, in the order of the source.
ConfiguringCalls ==
    <<"set_op_state:IDLE", "set_op_region", "set_tx_power", "set_ant_enables",
      "get_version", "get_temp", "get_op_region", "get_tx_power",
      "get_ant_enables", "keep_alive", "keep_alive">>

\* Every Configuring call was made, in order.
ConfiguringAttempted ==
    /\ Len(cmdLog) >= Len(ConfiguringCalls)
    /\ SubSeq(cmdLog, 1, Len(ConfiguringCalls)) = ConfiguringCalls

\* Every ReadingTags call was made: set_op_state(TAG_READ), get_op_state, at
\* least one get_tag_report, and set_op_state(IDLE) last.
ReadingTagsAttempted ==
    LET n == Len(ConfiguringCalls) IN
    /\ Len(cmdLog) >= n + 4
    /\ cmdLog[n + 1] = "set_op_state:TAG_READ"
    /\ cmdLog[n + 2] = "get_op_state"
    /\ \A k \in (n + 3)..(Len(cmdLog) - 1) : cmdLog[k] = "get_tag_report"
    /\ cmdLog[Len(cmdLog)] = "set_op_state:IDLE"

\* The response a set operation or wait_for_response_long ended with carries
\* the success status, resp. the opcode of the operation.
EndedWithSuccess == ~IsNone(frame.res) /\ status_ok(Val(frame.res))
EndedWithOpcode == ~IsNone(frame.res) /\ opcode_is(Val(frame.res), frame.op)

\* C1: when the worker is about to clear the channel on leaving AwaitingStart
\* (it holds the mutex and writes (False, {}) next), the channel content it
\* discards is exactly the (params, start) pair it read with get_uhf_params.
C1_ClearDiscardsWhatWasRead ==
    pc = "clear_write" => (uhf_params = params /\ startReading = startReading_local)

\* C2: a set operation that returns no error ended with a response frame that
\* has the success status and the opcode of that set operation.
C2_SetSuccessMeansStatusAndOpcode ==
    (frame.pc = "ret" /\ frame.op \in SetOps /\ IsNone(frame.ret.error))
        => (EndedWithSuccess /\ EndedWithOpcode)

\* C3: wait_for_response_long sends at most 5 probes, with a pacing wait
\* between any two consecutive probes, goes on only while no response carried
\* the expected opcode, and returns a non-None error whenever the response it
\* returns does not carry the expected opcode.
C3_LongWaitBoundedPacedAndFailing ==
    frame.usedLong =>
        /\ frame.probes <= LONG_WAIT_ATTEMPTS
        /\ frame.probes <= frame.waits + 1
        /\ (frame.pc \in {"long_loop", "long_wait"} => ~EndedWithOpcode)
        /\ (frame.pc = "parse" /\ ~EndedWithOpcode => ~IsNone(frame.error))

\* C4: one invocation of keep_alive writes at most 15 frames, and writes none
\* after the first attempt whose response was non-empty.
C4_KeepAliveBounded ==
    frame.op = "keep_alive" =>
        (frame.sends <= KEEP_ALIVE_ATTEMPTS /\ frame.sendsAfterData = 0)

\* C4 witness: a keep_alive that wrote 15 frames, had no response and returned.
C4_Witness ==
    frame.op = "keep_alive" /\ frame.pc = "ret" /\ frame.sends = KEEP_ALIVE_ATTEMPTS
    /\ ~frame.gotData

\* C5: when the result of a cycle that entered ReadingTags is emitted, the last
\* command of the cycle is set_op_state(IDLE), issued after set_op_state(TAG_READ)
\* and after every get_tag_report attempt.
C5_IdleAfterReadingTags ==
    (Emitted /\ EnteredReadingTags) =>
        /\ cmdLog[Len(cmdLog)] = "set_op_state:IDLE"
        /\ \A k \in DOMAIN cmdLog :
             cmdLog[k] \in {"set_op_state:TAG_READ", "get_tag_report"} => k < Len(cmdLog)

\* C5 witness: a cycle emitted after all 10 get_tag_report attempts failed and
\* after set_op_state had returned an error in it.
C5_Witness ==
    /\ Emitted /\ EnteredReadingTags
    /\ i = TAG_REPORT_ATTEMPTS /\ IsNone(vals.tag_report)
    /\ "opSate_set" \in errSeen

\* C6: in a cycle whose parameters have tagReport false, no set_op_state(TAG_READ),
\* get_op_state or get_tag_report is called, no audio cue is signalled, and the
\* emitted result has tag_report and op_state None.
C6_NoTagReadingWhenDisabled ==
    (startReading_local /\ ~params.tagReport) =>
        /\ \A k \in DOMAIN cmdLog :
             cmdLog[k] \notin {"set_op_state:TAG_READ", "get_op_state", "get_tag_report"}
        /\ nAudio = 0
        /\ Emitted => /\ IsNone(Val(signal_give_uhf_meta_data).tag_report)
                      /\ IsNone(Val(signal_give_uhf_meta_data).op_state)

\* C6 witness: the result of a configured cycle with tagReport false is emitted.
C6_Witness ==
    Emitted /\ entered /\ startReading_local /\ ~params.tagReport

\* C7: the result signal fires exactly once between two consecutive exits from
\* AwaitingStart (after the k-th exit and before its emission k - 1 results have
\* been emitted, from the emission to the next exit k), and when it fires every
\* Configuring call and, with tagReport, every ReadingTags call of the cycle
\* has been made.
C7_OneResultPerCycle ==
    /\ pc \in {"check", "tag_check", "tag_loop", "sound", "emit"}
              \cup (CallSites \ {"await_keep_alive"})
         => nEmits + 1 = nExits
    /\ pc \in {"loop_top", "get_lock", "get_read", "await_keep_alive", "await_sleep",
               "clear_lock", "clear_write"}
         => nEmits = nExits
    /\ (Emitted /\ entered) =>
         /\ ConfiguringAttempted
         /\ IF params.tagReport THEN ReadingTagsAttempted
            ELSE Len(cmdLog) = Len(ConfiguringCalls)

\* C7 witness: the result of a second cycle has been emitted.
C7_Witness == Emitted /\ entered /\ nExits = 2 /\ nEmits = 2

C9_EveryStepErrorReported ==
    Emitted =>
        \A k \in errSeen : ~IsNone(Val(signal_give_uhf_meta_data).error[k])

\* C10: after a failed open exactly one result has been emitted, it carries the
\* open error, nothing was written to the port and the channel was never read;
\* after a successful open the thread never ends.
C10_OnlyOpenFailureHalts ==
    /\ pc = "returned" =>
         /\ nEmits = 1 /\ ~IsNone(err)
         /\ signal_give_uhf_meta_data = Some([error |-> err])
         /\ ~sentAny /\ ~readAny
    /\ pc # "crashed"

\* wait_for_response_short has returned res (it did not raise).
ShortReturned == frame.op = "wait_for_response_short" /\ frame.pc = "done"
ShortRes == Val(Val(frame.out).res)

\* The frame f is a response with the opcode wait_for_response_short expects.
IsExpected(f) ==
    "bytes" \in DOMAIN frame.set_response /\ SubSeq(f, 5, 6) = frame.set_response.bytes

\* C11: when the received buffer is a keep-alive response frame immediately
\* followed by a complete response frame with the expected opcode,
\* wait_for_response_short returns that second frame.
C11_StrayKeepAliveSkipped ==
    (/\ ShortReturned /\ Len(frame.parts) = 2 /\ frame.cut = 0
     /\ frame.parts[1] = GoodFrame("keep_alive") /\ IsExpected(frame.parts[2]))
        => ShortRes = frame.parts[2]

\* The reference of C12, on the positions of the marker f6 28 in the buffer.
RefMarkers(b) == { k \in 1..(Len(b) - 1) : b[k] = 246 /\ b[k + 1] = 40 }
RefMarker(b, n) ==
    CHOOSE k \in RefMarkers(b) : Cardinality({m \in RefMarkers(b) : m < k}) = n - 1
RefFragment(b, n) ==
    SubSeq(b, IF n = 1 THEN 1 ELSE RefMarker(b, n - 1) + 2,
              IF n = Cardinality(RefMarkers(b)) + 1 THEN Len(b)
              ELSE RefMarker(b, n) - 1)
RefSelect(b, expected) ==
    IF Cardinality(RefMarkers(b)) + 1 > 2
    THEN LET third == <<246, 40>> \o RefFragment(b, 3) IN
         IF /\ "bytes" \in DOMAIN expected /\ Len(third) >= 6
            /\ <<third[5], third[6]>> = expected.bytes
         THEN third
         ELSE <<246, 40>> \o RefFragment(b, 2)
    ELSE b
RefLength(x) ==
    IF Len(x) >= 4 THEN 256 * x[3] + x[4] ELSE IF Len(x) = 3 THEN x[3] ELSE 0
RefKeep(x) == [k \in 1..(IF RefLength(x) + 2 < Len(x) THEN RefLength(x) + 2 ELSE Len(x)) |-> x[k]]

\* C12: for every received buffer and expected opcode wait_for_response_short
\* returns what the reference returns: split on f6 28; with more than two
\* fragments marker + third fragment if its bytes 4..5 are the expected opcode,
\* else marker + second fragment; with at most two fragments the buffer; then
\* the first (length field at bytes 2..3) + 2 bytes of the selection.
C12_ShortIsTheReference ==
    (ShortReturned /\ ~IsNone(frame.rx.data)) =>
        ShortRes = RefKeep(RefSelect(Val(frame.rx.data), frame.set_response))

\* C12 witness: a buffer of more than two fragments whose third fragment has
\* not the expected opcode, so that the second fragment was returned.
C12_Witness ==
    /\ ShortReturned /\ Len(frame.parts) = 3 /\ frame.cut = 0
    /\ IsExpected(frame.parts[1]) /\ ~IsExpected(frame.parts[2])
    /\ ShortRes = frame.parts[1]

\* C13: when the received buffer is made of one or more complete stale frames
\* and one complete frame with the expected opcode, in any order,
\* wait_for_response_short returns the frame with the expected opcode.
C13_StaleFramesSkipped ==
    (/\ ShortReturned /\ Len(frame.parts) >= 2 /\ frame.cut = 0
     /\ Cardinality({k \in DOMAIN frame.parts : IsExpected(frame.parts[k])}) = 1)
        => \E k \in DOMAIN frame.parts :
             IsExpected(frame.parts[k]) /\ ShortRes = frame.parts[k]

\* C14: a set operation whose first (short) wait gave an empty response returns
\* a failure only after it ran wait_for_response_long.
C14_SetFallsBackToLong ==
    (frame.op \in SetOps /\ frame.pc = "ret" /\ ~IsNone(frame.ret.error)
     /\ ~IsNone(frame.res) /\ Val(frame.res) = <<>>)
        => frame.usedLong

\* C15: the worker never writes a command frame while a command it wrote
\* earlier has had no response: at most one written command is unanswered.
C15_NoRequestWhileOutstanding == frame.pending <= 1

\* The worker holds the channel mutex inside get_uhf_params or inside its
\* clearing set_uhf_params; the producer holds it inside set_uhf_params.
WorkerHoldsLock == pc \in {"get_read", "clear_write"}
ProducerHoldsLock == prod = "write"

\* C16: the producer and the session worker never hold the channel mutex at
\* the same time, and the mutex names the one that holds it.
C16_ChannelMutualExclusion ==
    /\ ~(WorkerHoldsLock /\ ProducerHoldsLock)
    /\ (WorkerHoldsLock <=> mutex = "worker")
    /\ (ProducerHoldsLock <=> mutex = "producer")

\* C16 witness: the producer holds the mutex inside set_uhf_params while the
\* worker stands at the tryLock of its clearing set_uhf_params.
C16_Witness == ProducerHoldsLock /\ pc = "clear_lock" /\ mutex = "producer"

\* The places of a command in the log of the cycle.
PlacesOf(tag) == { k \in DOMAIN cmdLog : cmdLog[k] = tag }

\* C17: in a cycle, set_op_state(IDLE) is the first command after AwaitingStart
\* and precedes set_op_region, set_tx_power and set_ant_enables;
\* set_op_state(TAG_READ) precedes every get_tag_report; and when the result of
\* the cycle is emitted a set_op_state(IDLE) follows the last get_tag_report.
C17_CommandOrder ==
    LET idle == PlacesOf("set_op_state:IDLE")
        tagRead == PlacesOf("set_op_state:TAG_READ")
        reports == PlacesOf("get_tag_report")
        sets == { k \in DOMAIN cmdLog :
                    cmdLog[k] \in {"set_op_region", "set_tx_power", "set_ant_enables"} }
    IN  /\ cmdLog # <<>> => cmdLog[1] = "set_op_state:IDLE"
        /\ \A k \in sets : \E j \in idle : j < k
        /\ \A k \in reports : \E j \in tagRead : j < k
        /\ Emitted => \A k \in reports : \E j \in idle : j > k

\* C17 witness: the result of a cycle is emitted whose second get_tag_report
\* attempt returned a report.
C17_Witness ==
    /\ Emitted /\ EnteredReadingTags
    /\ i = 2 /\ ~IsNone(vals.tag_report)
    /\ Cardinality(PlacesOf("get_tag_report")) = 2

\* The report get_tag_report parses from the reader's response frame.
ParsedReport == parse_value("get_tag_report", GoodFrame("get_tag_report"))

\* C18: a cycle calls get_tag_report at most 10 times and never again after
\* the attempt that returned a parsed report, and the tag_report of the emitted
\* result is the report of that attempt (None when no attempt returned one).
C18_TagReportAttempts ==
    LET attempts == Cardinality(PlacesOf("get_tag_report")) IN
    /\ attempts <= TAG_REPORT_ATTEMPTS
    /\ attempts = (IF pc = "get_tag_report" THEN i - 1 ELSE i)
    /\ (pc = "get_tag_report" => IsNone(vals.tag_report))
    /\ (~IsNone(vals.tag_report) =>
          (attempts > 0 /\ Val(vals.tag_report) = ParsedReport))
    /\ (Emitted => Val(signal_give_uhf_meta_data).tag_report = vals.tag_report)

\* C18 witness: the result of a cycle is emitted whose tenth get_tag_report
\* attempt was the first to return a report.
C18_Witness ==
    /\ Emitted /\ i = TAG_REPORT_ATTEMPTS
    /\ Cardinality(PlacesOf("get_tag_report")) = TAG_REPORT_ATTEMPTS
    /\ ~IsNone(Val(signal_give_uhf_meta_data).tag_report)

\* C19: the audio cue is signalled at most once in a cycle, and when the result
\* of the cycle is emitted it has been signalled exactly if the cycle ran with
\* tagReport and soundEffect set and a get_tag_report returned a report.
C19_AudioCueOnceWhenReported ==
    /\ nAudio <= 1
    /\ Emitted =>
          (nAudio = 1 <=> /\ entered /\ params.tagReport /\ params.soundEffect
                          /\ PlacesOf("get_tag_report") # {}
                          /\ ~IsNone(vals.tag_report))

\* C19 witness: results are emitted of a cycle that signalled the audio cue.
C19_Witness == Emitted /\ nAudio = 1 /\ params.soundEffect

\* C20: a failure of serial_send or serial_receive inside an operation, a
\* receive that returns an error and no data included, is never raised out of
\* the operation, whose error it becomes when the operation returns.
C20_TransportFailureReturned ==
    /\ frame.pc # "raised"
    /\ (frame.pc = "ret" /\ ~IsNone(frame.error)) => ~IsNone(frame.ret.error)

\* C21: with the port open, a cycle that has left AwaitingStart emits its
\* result and the worker is back at the read of the channel in AwaitingStart,
\* whatever the line does (write errors, empty responses, responses with
\* another opcode or a failure status).
C21_CycleTerminates ==
    /\ (pc = "check") ~> Emitted
    /\ Emitted ~> (pc = "get_lock")

\* C21 witness: the result of a cycle is emitted in which keep_alive used up
\* its 15 attempts and the tag loop its 10.
C21_Witness ==
    /\ Emitted /\ entered /\ "keep_alive" \in errSeen
    /\ i = TAG_REPORT_ATTEMPTS /\ IsNone(vals.tag_report)
    /\ nAudio = 0

\* The content of the configuration channel.
Channel == <<startReading, uhf_params>>

\* C22: a step of get_uhf_params leaves the channel as it is; the channel
\* changes only in the write of a producer's set_uhf_params or in the write of
\* the worker's set_uhf_params(False, {}) on leaving AwaitingStart, and after
\* that write the flag is false and the record empty.
C22_ReadLeavesChannel ==
    [][ /\ (pc = "get_read" => Channel' = Channel)
        /\ (Channel' # Channel =>
              \/ (prod = "write" /\ prod' = "idle" /\ pc' = pc)
              \/ (pc = "clear_write" /\ pc' = "check" /\ nExits' = nExits + 1))
        /\ (pc = "clear_write" /\ pc' = "check" => Channel' = <<FALSE, NoParams>>)
      ]_vars

\* C22 witness: the worker has read a start-flagged deposit and cleared the
\* channel; it holds the record it read and the channel is empty.
C22_Witness ==
    /\ pc = "check" /\ nExits = 1 /\ startReading_local /\ params # NoParams
    /\ Channel = <<FALSE, NoParams>>

\* A pure function of the catalog has returned.
PureDone(fn) == frame.fn = fn /\ frame.pc = "done"

\* C23: every request frame starts with the marker F6 28 and its 16-bit
\* big-endian length field is the number of bytes after the marker.
C23_RequestLengthField ==
    PureDone("request") =>
        LET msg == Val(frame.out) IN
        /\ Slice(msg, 0, 2) = FRAMING_BYTES
        /\ from_bytes_big(Slice(msg, 2, 4)) = Len(msg) - FRAMING_BYTES_LEN

\* C24: the integer packed from the four antenna-enable flags or from the six
\* event-mask flags has the first flag at bit 0, and the bit tests of
\* get_ant_enables / get_event_mask give back every flag under its own name.
C24_BitPackingRoundTrips ==
    PureDone("pack_unpack") =>
        LET a == frame.arg
            packed == Val(frame.out).packed
            got == Val(frame.out).got
        IN  /\ \A k \in DOMAIN a : ((packed \div (2 ^ (k - 1))) % 2) = a[k]
            /\ IsNone(got.error)
            /\ IF frame.op = "set_ant_enables"
               THEN Val(got.value) = [ant1enables |-> a[1] = 1, ant2enables |-> a[2] = 1,
                                      ant3enables |-> a[3] = 1, ant4enables |-> a[4] = 1]
               ELSE Val(got.value) = [tag_seen |-> a[1] = 1, tag_removed |-> a[2] = 1,
                                      tag_power_change |-> a[3] = 1,
                                      tag_report_timeout |-> a[4] = 1,
                                      gen2_op_completed |-> a[5] = 1,
                                      gen2_op_timeout |-> a[6] = 1]

\* C24 witness: the flags (1, 0, 0, 0) of the antennas were packed to 1 and
\* unpacked.
C24_Witness ==
    /\ PureDone("pack_unpack") /\ frame.op = "set_ant_enables"
    /\ frame.arg = <<1, 0, 0, 0>> /\ Val(frame.out).packed = 1

\* An operation has parsed the response frame.arg.
Parsed(op) == PureDone("parse") /\ frame.op = op

\* What the operation returned: its error and its value.
ParsedError == Val(frame.out).error
ParsedValue == Val(Val(frame.out).value)

\* The response F6 28 00 08 80 13 00 00 10 64 of the claim.
TempExample == <<246, 40, 0, 8, 128, 19, 0, 0, 16, 100>>

\* C25 as stated: the response F6 28 00 08 80 13 00 00 10 64 parses to the
\* temperature 42.12, 4212 hundredths.
C25_TemperatureIs4212 ==
    (Parsed("get_temp") /\ frame.arg = TempExample) =>
        (IsNone(ParsedError) /\ ParsedValue.hundredths = 4212)

\* C25: get_temp returns the big-endian integer of the payload divided by 100;
\* the response F6 28 00 08 80 13 00 00 10 64 parses to 41.96, 4196 hundredths.
C25_TemperatureIsPayloadOver100 ==
    Parsed("get_temp") =>
        /\ IsNone(ParsedError)
        /\ ParsedValue.hundredths = 256 * frame.arg[9] + frame.arg[10]
        /\ frame.arg = TempExample => ParsedValue.hundredths = 4196

\* C25 witness: get_temp has parsed the response F6 28 00 08 80 13 00 00 10 64.
C25_Witness == Parsed("get_temp") /\ frame.arg = TempExample

\* The null-terminated fields of a payload, in order.
RECURSIVE NullFields(_, _)
NullFields(payload, field) ==
    IF Len(payload) = 0 THEN <<>>
    ELSE IF payload[1] = 0
         THEN <<field>> \o NullFields(SubSeq(payload, 2, Len(payload)), <<>>)
         ELSE NullFields(SubSeq(payload, 2, Len(payload)), Append(field, payload[1]))

\* C26: get_version returns the four null-terminated strings of the payload,
\* in order, as FirmwareRev, SDKRev, SoftwareRev and HardwareRev.
C26_VersionFieldsInOrder ==
    Parsed("get_version") =>
        LET f == NullFields(SliceFrom(frame.arg, 8), <<>>) IN
        /\ IsNone(ParsedError)
        /\ ParsedValue = [FirmwareRev |-> f[1], SDKRev |-> f[2],
                          SoftwareRev |-> f[3], HardwareRev |-> f[4]]

\* The names code_to_param gives the codes 1..7.
ParamNames ==
    { "Tag Time Out", "Tag_Power_Change_Threshold", "Tag_Report_Timeout",
      "Transient_Detect_Time", "Transient_Count", "Transient_Interval",
      "Gen2_Op_Timeout" }

\* C27: code_to_param returns a name for every 16-bit code, the sentinel
\* 'Response_Not_Defined' exactly outside 1..7; a successful GetOpState or
\* GetTagReport response (and a GetOpParams one) with a value outside the
\* table gives the 'Not defined' variant (resp. the sentinel) and error None.
C27_UnknownValuesGiveNoError ==
    /\ PureDone("code_to_param") =>
          IF frame.arg[1][1] \in 1..7 THEN Val(frame.out) \in ParamNames
          ELSE Val(frame.out) = "Response_Not_Defined"
    /\ Parsed("get_op_state") =>
          /\ IsNone(ParsedError)
          /\ from_bytes_big(Slice(frame.arg, 10, 12)) \notin 0..9
                => ParsedValue = "Not defined"
    /\ Parsed("get_tag_report") =>
          /\ IsNone(ParsedError)
          /\ from_bytes_big(Slice(frame.arg, 8, 10)) \notin 1..6
                => ParsedValue.replyReason = "Not defined"
    /\ Parsed("get_operational_params") =>
          /\ IsNone(ParsedError)
          /\ from_bytes_big(Slice(frame.arg, 8, 10)) \notin 1..7
                => ParsedValue.param = "Response_Not_Defined"

\* C27 witness: code_to_param was called with 0xffff, outside its table.
C27_Witness ==
    PureDone("code_to_param") /\ frame.arg[1][1] = 65535
    /\ Val(frame.out) = "Response_Not_Defined"

\* The two bytes at offsets a, a+1 of the response of the call, read as
\* unsigned big-endian from the bytes themselves.
Word16At(a) == 256 * frame.arg[a + 1] + frame.arg[a + 2]

\* The same two bytes read as two's complement.
Signed16At(a) == IF frame.arg[a + 1] >= 128 THEN Word16At(a) - 65536 ELSE Word16At(a)

\* C28: get_tag_report reads bytes 10..11 (powerRSSIRaw) and 12..13
\* (powerdBm) of the response as signed 16-bit big-endian, bytes 14..17
\* (timestamp) and 18..19 (antenna) as unsigned big-endian.
C28_TagReportFieldsDecoded ==
    Parsed("get_tag_report") =>
        /\ IsNone(ParsedError)
        /\ ParsedValue.powerRSSIRaw = Signed16At(10)
        /\ ParsedValue.powerdBm = Signed16At(12)
        /\ ParsedValue.timestamp = 65536 * Word16At(14) + Word16At(16)
        /\ ParsedValue.antenna = Word16At(18)

\* C28 witness: a report whose RSSI bytes are 80 00 and power bytes e7 2e
\* was parsed to -32768 and -6354, its antenna bytes ff ff to 65535.
C28_Witness ==
    /\ Parsed("get_tag_report")
    /\ Slice(frame.arg, 10, 14) = <<128, 0, 231, 46>>
    /\ Slice(frame.arg, 14, 20) = <<98, 182, 53, 206, 255, 255>>
    /\ ParsedValue.powerRSSIRaw = -32768 /\ ParsedValue.powerdBm = -6354
    /\ ParsedValue.timestamp = 1656108494 /\ ParsedValue.antenna = 65535

\* C29: on an open port that answers every keep_alive and with the worker
\* scheduled fairly, a start-flagged deposit that the producer does not overwrite (here
\* the last one the host makes) leads to the emission of the result of a
\* cycle that ran with the parameters of that deposit.
C29_DepositLeadsToCycle ==
    \A p \in ParamSet :
        (comOpen /\ startReading /\ uhf_params = p /\ prod = "idle" /\ toDeposit = 0)
            ~> (Emitted /\ entered /\ params = p)

\* C30: keep_alive returns alive = True and no error for every buffer that
\* holds a complete successful keep-alive response, a stale frame of another
\* command before it included.
C30_KeepAliveFoundInBuffer ==
    Parsed("keep_alive") => IsNone(ParsedError) /\ ParsedValue = TRUE

\* The opcode field (bytes 4..5) of the request the call has built.
RequestOpcode == from_bytes_big(Slice(Val(frame.out), 4, 6))

\* C31: the request of every operation carries its opcode with the
\* Command/Response bit 0x8000 clear; the opcode the operation hands
\* wait_for_response_short as expected, and the one it checks the response
\* against, is that opcode with the bit set; no other operation has it.
C31_ExpectedOpcodeIsRequestOpcode ==
    PureDone("request") =>
        /\ RequestOpcode < 32768
        /\ UHFBytes[frame.op] = to_bytes2(RequestOpcode + 32768)
        /\ DOMAIN short_arg(frame.op) = {"bytes"}
        /\ short_arg(frame.op).bytes = to_bytes2(RequestOpcode + 32768)
        /\ \A other \in Ops \ {frame.op} : UHFBytes[other] # UHFBytes[frame.op]

\* C32: for every payload variant and every declared length that is at least
\* length field + opcode + encoded payload, the frame build_cmd returns is
\* the header and the encoded payload followed by zero bytes, with exactly
\* `length` bytes after the marker.
C32_PaddedToDeclaredLength ==
    LET length == frame.arg[1]
        payload == encoded_payload(PayloadVariants[frame.arg[3]])
        msg == Val(frame.out)
    IN  (PureDone("build_cmd") /\ length >= 4 + Len(payload)) =>
            /\ Len(msg) - FRAMING_BYTES_LEN = length
            /\ SubSeq(msg, 1, 6 + Len(payload))
                  = FRAMING_BYTES \o to_bytes2(length) \o to_bytes2(frame.arg[2]) \o payload
            /\ \A k \in (6 + Len(payload) + 1)..Len(msg) : msg[k] = 0

\* C33: a get operation or keep_alive that returns gives exactly one of error
\* and value; it gives a value only for a response with success status and
\* its own response opcode, and an error and no value after a send error, an
\* empty response, a failure status or another opcode.
C33_ExactlyOneOfErrorAndValue ==
    (frame.pc = "ret" /\ frame.op \in GetOps \cup {"keep_alive"}) =>
        LET accepted == /\ IsNone(frame.error)
                        /\ ~IsNone(frame.res)
                        /\ Slice(Val(frame.res), 6, 8) = STATUS_SUCCESS
                        /\ Slice(Val(frame.res), 4, 6) = UHFBytes[frame.op]
        IN  /\ IsNone(frame.ret.error) # IsNone(frame.ret.value)
            /\ ~IsNone(frame.ret.value) <=> accepted

\* C33 witness: get_temp returned an error and no value for a successful
\* response that carries the opcode of another command.
C33_Witness ==
    /\ frame.pc = "ret" /\ frame.op = "get_temp"
    /\ IsNone(frame.error) /\ frame.res = Some(GoodFrame("keep_alive"))
    /\ ~IsNone(frame.ret.error) /\ IsNone(frame.ret.value)

\* The places of start_reading from the end of the wait for a start flag to
\* the emission of the cycle's result.
InCycle ==
    pc \in {"clear_lock", "clear_write", "check", "tag_check", "tag_loop", "sound", "emit"}
           \cup (CallSites \ {"await_keep_alive"})

\* C34: the session loop has left the wait for a start flag, and emitted
\* results, at most as many times as the producer has made start-flagged
\* deposits; a cycle runs with the start flag read as set and with the record
\* of a deposit, never with the empty record.
C34_NoCycleWithoutStart ==
    /\ nExits <= nDeposits
    /\ pc # "returned" => nEmits <= nDeposits
    /\ (InCycle \/ Emitted) =>
          /\ startReading_local /\ nDeposits > 0
          /\ params \in ParamSet /\ params # NoParams

\* C34 witness: the results of two cycles have been emitted after two
\* deposits, the second cycle run with the record of a deposit.
C34_Witness ==
    Emitted /\ entered /\ nEmits = 2 /\ nDeposits = 2 /\ params \in ParamSet

\* The places of start_reading in the wait for a start flag.
AwaitingStart == pc \in {"get_lock", "get_read", "await_keep_alive", "await_sleep"}

\* A keep_alive called since the top of the loop has returned.
KeepAliveReturned == ~IsNone(errs.keep_alive) \/ ~IsNone(vals.alive)

\* C35: in the wait for a start flag the only operation the worker calls is
\* keep_alive, so no other command has been issued since the top of the loop;
\* and a cycle is left for, run and emitted only after a keep_alive of this
\* wait has returned, also when the flag was set at the first read.
C35_KeepAliveInEveryWait ==
    /\ (AwaitingStart /\ pc \in CallSites) => site_op(pc) = "keep_alive"
    /\ AwaitingStart =>
          /\ cmdLog = <<>>
          /\ \A k \in ErrKeys \ {"keep_alive"} : IsNone(errs[k])
          /\ \A k \in ValKeys \ {"alive"} : IsNone(vals[k])
    /\ (pc = "await_sleep" \/ InCycle \/ Emitted) => KeepAliveReturned

\* C35 witness: after the emission of a first result the worker read a set
\* flag, and its keep_alive has returned before it leaves the wait.
C35_Witness ==
    /\ pc = "await_sleep" /\ startReading_local /\ nEmits = 1
    /\ vals.alive = Some(TRUE)

====
